---- MODULE Spec2Model ----
(***************************************************************************)
(* Search index of the browser shell: SearchIndexManager                   *)
(* (src/utils/searchIndex.ts), the StorageManager it reads records from    *)
(* and persists its snapshot through (src/unnamed/part_001), and the       *)
(* browserStore operations that create and delete records                  *)
(* (src/store/browserStore.ts).                                            *)
(*                                                                         *)
(* Strings are sequences of one-character strings.  Times are in           *)
(* milliseconds as Date.now() gives them.  Scores are fixed-point numbers  *)
(* in thousandths (1.0 is 1000), rounded down.                             *)
(***************************************************************************)
EXTENDS Integers, Sequences, FiniteSets, TLC

(***************************************************************************)
(* Bounds of the model                                                     *)
(***************************************************************************)
\* number of operations and clock advances in one run
MaxSteps == 3
\* number of storage operations that fail in one run
MaxFaults == 1
\* largest number of visits of one page in a prepared session
MaxVisits == 2
\* largest length of the strings compared by levenshteinSimilarity
MaxLen == 3
\* operations run on a prepared session
MaxOps == 2

(***************************************************************************)
(* Characters and strings                                                  *)
(***************************************************************************)
UpperChars == <<"A","B","C","D","E","F","G","H","I","J","K","L","M",
                "N","O","P","Q","R","S","T","U","V","W","X","Y","Z">>
LowerChars == <<"a","b","c","d","e","f","g","h","i","j","k","l","m",
                "n","o","p","q","r","s","t","u","v","w","x","y","z">>
DigitChars == {"0","1","2","3","4","5","6","7","8","9"}
SpaceChars == {" ", "\t", "\n"}

UpperSet == {UpperChars[i] : i \in 1..26}
LowerSet == {LowerChars[i] : i \in 1..26}
LowerOf == [c \in UpperSet |-> LowerChars[CHOOSE i \in 1..26 : UpperChars[i] = c]]

\* String.prototype.toLowerCase on one character
LowerChar(c) == IF c \in UpperSet THEN LowerOf[c] ELSE c

\* String.prototype.toLowerCase
toLowerCase(s) == [i \in 1..Len(s) |-> LowerChar(s[i])]

\* character class [a-z0-9\s]
IsWordOrSpace(c) == c \in LowerSet \/ c \in DigitChars \/ c \in SpaceChars

\* .replace(/[^a-z0-9\s]/g, ' ')
ReplaceNonAlnum(s) == [i \in 1..Len(s) |-> IF IsWordOrSpace(s[i]) THEN s[i] ELSE " "]

\* String.prototype.trim
RECURSIVE trimStart(_)
trimStart(s) ==
  IF s # <<>> /\ Head(s) \in SpaceChars THEN trimStart(Tail(s)) ELSE s

RECURSIVE trimEnd(_)
trimEnd(s) ==
  IF s # <<>> /\ s[Len(s)] \in SpaceChars THEN trimEnd(SubSeq(s, 1, Len(s) - 1)) ELSE s

trim(s) == trimEnd(trimStart(s))

\* String.prototype.split(/\s+/): the pieces between runs of whitespace,
\* including the empty piece before a leading run and after a trailing run.
\* The pieces of s[lo..hi], from the pieces of its two halves: the last
\* piece of the first half and the first piece of the second are one piece,
\* which is dropped when it lies within a run of whitespace.
RECURSIVE SplitFrom(_, _, _)
SplitFrom(s, lo, hi) ==
  IF lo > hi THEN << <<>> >>
  ELSE IF lo = hi THEN (IF s[lo] \in SpaceChars THEN << <<>>, <<>> >> ELSE << <<s[lo]>> >>)
  ELSE LET mid == (lo + hi) \div 2
       IN CHOOSE r \in { SubSeq(l, 1, Len(l) - 1)
                           \o (IF s[mid] \in SpaceChars /\ s[mid + 1] \in SpaceChars
                                 THEN <<>> ELSE <<l[Len(l)] \o Head(t)>>)
                           \o Tail(t) :
                           l \in {SplitFrom(s, lo, mid)}, t \in {SplitFrom(s, mid + 1, hi)} } : TRUE

splitSpaces(s) == SplitFrom(s, 1, Len(s))

\* String.prototype.includes
includes(s, t) ==
  \E i \in 0..(Len(s) - Len(t)) : SubSeq(s, i + 1, i + Len(t)) = t

\* String.prototype.indexOf (0-based, -1 when absent)
indexOf(s, t) ==
  IF includes(s, t)
    THEN CHOOSE i \in 0..(Len(s) - Len(t)) :
           /\ SubSeq(s, i + 1, i + Len(t)) = t
           /\ \A k \in 0..(i - 1) : SubSeq(s, k + 1, k + Len(t)) # t
    ELSE -1

\* String.prototype.substring(from, to) for 0 <= from
substring(s, from, to) ==
  SubSeq(s, from + 1, IF to > Len(s) THEN Len(s) ELSE to)

\* [...new Set(words)]: first occurrences, in order
RECURSIVE dedup(_)
dedup(s) ==
  IF s = <<>> THEN <<>>
  ELSE LET init == dedup(SubSeq(s, 1, Len(s) - 1)) IN
       IF \E i \in 1..Len(init) : init[i] = s[Len(s)]
         THEN init ELSE Append(init, s[Len(s)])

Range(s) == {s[i] : i \in 1..Len(s)}

Min2(a, b) == IF a < b THEN a ELSE b
Max2(a, b) == IF a > b THEN a ELSE b

(***************************************************************************)
(* Text literals of the source                                             *)
(***************************************************************************)
\* extractKeywords: stopWords
stopWords ==
  { <<"t","h","e">>, <<"a">>, <<"a","n">>, <<"a","n","d">>, <<"o","r">>,
    <<"b","u","t">>, <<"i","n">>, <<"o","n">>, <<"a","t">>, <<"t","o">>,
    <<"f","o","r">>, <<"o","f">>, <<"w","i","t","h">>, <<"b","y">>,
    <<"h","t","t","p">>, <<"h","t","t","p","s">>, <<"w","w","w">>,
    <<"c","o","m">>, <<"o","r","g">>, <<"n","e","t">>, <<"e","d","u">>,
    <<"g","o","v">> }

HttpScheme == <<"h","t","t","p",":","/","/">>
HttpsScheme == <<"h","t","t","p","s",":","/","/">>
WwwDot == <<"w","w","w",".">>

(***************************************************************************)
(* createIndexItem and its helpers                                         *)
(***************************************************************************)
\* extractKeywords(title, url)
extractKeywords(title, url) ==
  LET text == toLowerCase(title \o <<" ">> \o url)
      IsKeyword(word) == Len(word) > 2 /\ word \notin stopWords
      words == SelectSeq(splitSpaces(ReplaceNonAlnum(text)), IsKeyword)
  IN dedup(SubSeq(words, 1, Min2(20, Len(words))))

\* hostname of new URL(url) for an http(s) URL; <<>> stands for the
\* TypeError the constructor throws on anything else
RECURSIVE HostEnd(_, _)
HostEnd(s, i) ==
  IF i > Len(s) \/ s[i] \in {"/", "?", "#", ":"} THEN i - 1 ELSE HostEnd(s, i + 1)

\* (the lowercased url l and the part rest behind the scheme are each
\* computed once and bound)
hostname(url) ==
  CHOOSE host \in
    { SubSeq(rest, 1, HostEnd(rest, 1)) :
        rest \in UNION { { IF Len(l) >= Len(HttpsScheme) /\ SubSeq(l, 1, Len(HttpsScheme)) = HttpsScheme
                               THEN SubSeq(l, Len(HttpsScheme) + 1, Len(l))
                             ELSE IF Len(l) >= Len(HttpScheme) /\ SubSeq(l, 1, Len(HttpScheme)) = HttpScheme
                               THEN SubSeq(l, Len(HttpScheme) + 1, Len(l))
                             ELSE <<>> } : l \in {toLowerCase(url)} } } : TRUE

\* extractDomain(url)
extractDomain(url) ==
  CHOOSE domain \in
    { IF Len(h) >= Len(WwwDot) /\ SubSeq(h, 1, Len(WwwDot)) = WwwDot
        THEN SubSeq(h, Len(WwwDot) + 1, Len(h)) ELSE h : h \in {hostname(url)} } : TRUE

\* Math.log(n) * 0.1 in thousandths, for the visit counts the model reaches
LogTenth(n) ==
  CASE n <= 1 -> 0
    [] n = 2 -> 69
    [] n = 3 -> 109
    [] n = 4 -> 138
    [] n = 5 -> 160
    [] OTHER -> 179

\* Math.max(0, 1 - daysSinceUpdate / 30) * 0.2 in thousandths:
\* 200 - 200 * age / (30 * 86400000)
RecencyBoost(age) == Max2(0, 200 - (age \div 12960000))

\* createIndexItem without "Add tags for bookmarks"
createIndexItemUntagged(item, type, t) ==
  LET title == toLowerCase(item.title)
      url == toLowerCase(item.url)
      domain == toLowerCase(extractDomain(item.url))
      kw0 == extractKeywords(item.title, item.url)
      kw1 == IF type = "bookmark" THEN Append(kw0, toLowerCase(item.folder)) ELSE kw0
      visits == IF type = "history" THEN LogTenth(item.visitCount + 1) ELSE 0
      timestamp == IF type = "history" THEN item.timestamp ELSE item.dateAdded
  IN [ id |-> item.id,
       type |-> type,
       title |-> item.title,
       url |-> item.url,
       content |-> title \o <<" ">> \o url \o <<" ">> \o domain,
       keywords |-> kw1,
       score |-> 1000 + visits + RecencyBoost(t - timestamp),
       lastUpdated |-> t ]

\* createIndexItem(item, type) evaluated at Date.now() = t
createIndexItem(item, type, t) ==
  LET title == toLowerCase(item.title)
      url == toLowerCase(item.url)
      domain == toLowerCase(extractDomain(item.url))
      kw0 == extractKeywords(item.title, item.url)
      kw1 == IF type = "bookmark" THEN Append(kw0, toLowerCase(item.folder)) ELSE kw0
      kw2 == IF type = "bookmark"
               THEN kw1 \o [i \in 1..Len(item.tags) |-> toLowerCase(item.tags[i])]
               ELSE kw1
      visits == IF type = "history" THEN LogTenth(item.visitCount + 1) ELSE 0
      timestamp == IF type = "history" THEN item.timestamp ELSE item.dateAdded
  IN [ id |-> item.id,
       type |-> type,
       title |-> item.title,
       url |-> item.url,
       content |-> title \o <<" ">> \o url \o <<" ">> \o domain,
       keywords |-> kw2,
       score |-> 1000 + visits + RecencyBoost(t - timestamp),
       lastUpdated |-> t ]

(***************************************************************************)
(* The scorer                                                              *)
(***************************************************************************)
\* normalizeQuery(query)
normalizeQuery(query) ==
  LET NonEmpty(term) == Len(term) > 0
  IN SelectSeq(splitSpaces(ReplaceNonAlnum(toLowerCase(query))), NonEmpty)

\* one row of the matrix without the term matrix[j][i - 1] + 1
RECURSIVE LevCellsTwoTerms(_, _, _, _, _)
LevCellsTwoTerms(a, bj, prev, i, row) ==
  IF i > Len(a) THEN row
  ELSE LET cost == IF a[i] = bj THEN 0 ELSE 1
           cell == Min2(prev[i + 1] + 1, prev[i] + cost)
       IN LevCellsTwoTerms(a, bj, prev, i + 1, Append(row, cell))

\* one row of the matrix of levenshteinSimilarity: cells 0..a.length of row
\* j, held at positions 1..a.length+1
RECURSIVE LevCells(_, _, _, _, _)
LevCells(a, bj, prev, i, row) ==
  IF i > Len(a) THEN row
  ELSE LET cost == IF a[i] = bj THEN 0 ELSE 1
           cell == Min2(Min2(row[i] + 1, prev[i + 1] + 1), prev[i] + cost)
       IN LevCells(a, bj, prev, i + 1, Append(row, cell))

\* the rows 1..b.length of the matrix, filled in order from row j on; prev
\* is row j - 1
RECURSIVE LevRows(_, _, _, _)
LevRows(a, b, j, prev) ==
  IF j > Len(b) THEN prev
  ELSE LET row == LevCells(a, b[j], prev, 1, <<j>>)
       IN IF Len(row) = Len(a) + 1 THEN LevRows(a, b, j + 1, row) ELSE row

\* matrix[b.length][a.length]
editDistance(a, b) == LevRows(a, b, 1, [i \in 1..(Len(a) + 1) |-> i - 1])[Len(a) + 1]

\* levenshteinSimilarity(a, b) as the fraction num / den
levenshteinSimilarity(a, b) ==
  IF Len(a) = 0 THEN [num |-> IF Len(b) = 0 THEN 1 ELSE 0, den |-> 1]
  ELSE IF Len(b) = 0 THEN [num |-> 0, den |-> 1]
  ELSE LET maxLength == Max2(Len(a), Len(b))
       IN [num |-> maxLength - editDistance(a, b), den |-> maxLength]

\* Math.max on two fractions
FracMax(x, y) == IF y.num * x.den > x.num * y.den THEN y ELSE x

\* calculateFuzzyMatch(term, indexItem)
RECURSIVE FuzzyOver(_, _, _)
FuzzyOver(term, targets, maxScore) ==
  IF targets = <<>> THEN maxScore
  ELSE FuzzyOver(term, Tail(targets),
                 FracMax(maxScore, levenshteinSimilarity(term, toLowerCase(Head(targets)))))

calculateFuzzyMatch(term, indexItem) ==
  FuzzyOver(term, <<indexItem.title, indexItem.url>> \o indexItem.keywords,
            [num |-> 0, den |-> 1])

\* matchedFields.push(f) unless it is included already
PushOnce(fields, f) == IF f \in Range(fields) THEN fields ELSE Append(fields, f)

\* the loop body with the title compared as it is spelled:
\* indexItem.title.includes(term)
MatchTermCased(indexItem, term, fuzzyMatch, fields) ==
  LET inTitle == includes(indexItem.title, term)
      inUrl == includes(toLowerCase(indexItem.url), term)
      inKeywords == \E k \in 1..Len(indexItem.keywords) : includes(indexItem.keywords[k], term)
      exact == (IF inTitle THEN 3000 ELSE 0) + (IF inUrl THEN 2000 ELSE 0)
                 + (IF inKeywords THEN 1500 ELSE 0)
      f1 == IF inTitle THEN PushOnce(fields, "title") ELSE fields
      f2 == IF inUrl THEN PushOnce(f1, "url") ELSE f1
      f3 == IF inKeywords THEN PushOnce(f2, "keywords") ELSE f2
      fuzzyScore == calculateFuzzyMatch(term, indexItem)
      fuzzyHit == fuzzyMatch /\ exact = 0 /\ 10 * fuzzyScore.num > 7 * fuzzyScore.den
  IN [ termScore |-> IF fuzzyHit THEN (500 * fuzzyScore.num) \div fuzzyScore.den ELSE exact,
       matchedFields |-> IF fuzzyHit THEN PushOnce(f3, "fuzzy") ELSE f3 ]

\* the loop body with the fuzzy threshold lowered: fuzzyScore > 0.6
MatchTermLenient(indexItem, term, fuzzyMatch, fields) ==
  LET inTitle == includes(toLowerCase(indexItem.title), term)
      inUrl == includes(toLowerCase(indexItem.url), term)
      inKeywords == \E k \in 1..Len(indexItem.keywords) : includes(indexItem.keywords[k], term)
      exact == (IF inTitle THEN 3000 ELSE 0) + (IF inUrl THEN 2000 ELSE 0)
                 + (IF inKeywords THEN 1500 ELSE 0)
      f1 == IF inTitle THEN PushOnce(fields, "title") ELSE fields
      f2 == IF inUrl THEN PushOnce(f1, "url") ELSE f1
      f3 == IF inKeywords THEN PushOnce(f2, "keywords") ELSE f2
      fuzzyScore == calculateFuzzyMatch(term, indexItem)
      fuzzyHit == fuzzyMatch /\ exact = 0 /\ 10 * fuzzyScore.num > 6 * fuzzyScore.den
  IN [ termScore |-> IF fuzzyHit THEN (500 * fuzzyScore.num) \div fuzzyScore.den ELSE exact,
       matchedFields |-> IF fuzzyHit THEN PushOnce(f3, "fuzzy") ELSE f3 ]

\* the loop body with the three checks chained by else: the first field
\* that includes the term is the only one scored
MatchTermFirstField(indexItem, term, fuzzyMatch, fields) ==
  LET inTitle == includes(toLowerCase(indexItem.title), term)
      inUrl == ~inTitle /\ includes(toLowerCase(indexItem.url), term)
      inKeywords == /\ ~inTitle /\ ~inUrl
                    /\ \E k \in 1..Len(indexItem.keywords) : includes(indexItem.keywords[k], term)
      exact == (IF inTitle THEN 3000 ELSE 0) + (IF inUrl THEN 2000 ELSE 0)
                 + (IF inKeywords THEN 1500 ELSE 0)
      f1 == IF inTitle THEN PushOnce(fields, "title") ELSE fields
      f2 == IF inUrl THEN PushOnce(f1, "url") ELSE f1
      f3 == IF inKeywords THEN PushOnce(f2, "keywords") ELSE f2
      fuzzyScore == calculateFuzzyMatch(term, indexItem)
      fuzzyHit == fuzzyMatch /\ exact = 0 /\ 10 * fuzzyScore.num > 7 * fuzzyScore.den
  IN [ termScore |-> IF fuzzyHit THEN (500 * fuzzyScore.num) \div fuzzyScore.den ELSE exact,
       matchedFields |-> IF fuzzyHit THEN PushOnce(f3, "fuzzy") ELSE f3 ]

\* the loop body with the fuzzy fallback tried whatever termScore is
MatchTermAlwaysFuzzy(indexItem, term, fuzzyMatch, fields) ==
  LET inTitle == includes(toLowerCase(indexItem.title), term)
      inUrl == includes(toLowerCase(indexItem.url), term)
      inKeywords == \E k \in 1..Len(indexItem.keywords) : includes(indexItem.keywords[k], term)
      exact == (IF inTitle THEN 3000 ELSE 0) + (IF inUrl THEN 2000 ELSE 0)
                 + (IF inKeywords THEN 1500 ELSE 0)
      f1 == IF inTitle THEN PushOnce(fields, "title") ELSE fields
      f2 == IF inUrl THEN PushOnce(f1, "url") ELSE f1
      f3 == IF inKeywords THEN PushOnce(f2, "keywords") ELSE f2
      fuzzyScore == calculateFuzzyMatch(term, indexItem)
      fuzzyHit == fuzzyMatch /\ 10 * fuzzyScore.num > 7 * fuzzyScore.den
  IN [ termScore |-> IF fuzzyHit THEN exact + (500 * fuzzyScore.num) \div fuzzyScore.den
                     ELSE exact,
       matchedFields |-> IF fuzzyHit THEN PushOnce(f3, "fuzzy") ELSE f3 ]

\* the body of the loop of calculateMatch for one term: the term's score
\* and the matched fields after it
MatchTerm(indexItem, term, fuzzyMatch, fields) ==
  LET inTitle == includes(toLowerCase(indexItem.title), term)
      inUrl == includes(toLowerCase(indexItem.url), term)
      inKeywords == \E k \in 1..Len(indexItem.keywords) : includes(indexItem.keywords[k], term)
      exact == (IF inTitle THEN 3000 ELSE 0) + (IF inUrl THEN 2000 ELSE 0)
                 + (IF inKeywords THEN 1500 ELSE 0)
      f1 == IF inTitle THEN PushOnce(fields, "title") ELSE fields
      f2 == IF inUrl THEN PushOnce(f1, "url") ELSE f1
      f3 == IF inKeywords THEN PushOnce(f2, "keywords") ELSE f2
      fuzzyScore == calculateFuzzyMatch(term, indexItem)
      fuzzyHit == fuzzyMatch /\ exact = 0 /\ 10 * fuzzyScore.num > 7 * fuzzyScore.den
  IN [ termScore |-> IF fuzzyHit THEN (500 * fuzzyScore.num) \div fuzzyScore.den ELSE exact,
       matchedFields |-> IF fuzzyHit THEN PushOnce(f3, "fuzzy") ELSE f3 ]

RECURSIVE MatchTerms(_, _, _, _, _, _)
MatchTerms(indexItem, queryTerms, fuzzyMatch, k, totalScore, fields) ==
  IF k > Len(queryTerms) THEN [score |-> totalScore, matchedFields |-> fields]
  ELSE LET m == MatchTerm(indexItem, queryTerms[k], fuzzyMatch, fields)
       IN MatchTerms(indexItem, queryTerms, fuzzyMatch, k + 1,
                     totalScore + m.termScore, m.matchedFields)

\* calculateMatch with the ratio of the coverage bonus capped at 1
calculateMatchCapped(indexItem, queryTerms, fuzzyMatch) ==
  LET terms == MatchTerms(indexItem, queryTerms, fuzzyMatch, 1, 0, <<>>)
      weighted == (terms.score * indexItem.score) \div 1000
      n == Len(queryTerms)
      boosted == IF n > 1
                   THEN (weighted * (2 * n + Min2(n, Len(terms.matchedFields)))) \div (2 * n)
                   ELSE weighted
  IN [score |-> boosted, matchedFields |-> terms.matchedFields]

\* calculateMatch(indexItem, queryTerms, fuzzyMatch)
calculateMatch(indexItem, queryTerms, fuzzyMatch) ==
  LET terms == MatchTerms(indexItem, queryTerms, fuzzyMatch, 1, 0, <<>>)
      weighted == (terms.score * indexItem.score) \div 1000
      n == Len(queryTerms)
      boosted == IF n > 1
                   THEN (weighted * (2 * n + Len(terms.matchedFields))) \div (2 * n)
                   ELSE weighted
  IN [score |-> boosted, matchedFields |-> terms.matchedFields]

(***************************************************************************)
(* Snippets and sorting                                                    *)
(***************************************************************************)
\* queryTerms.indexOf(term), 0-based
TermIndex(queryTerms, term) ==
  (CHOOSE k \in 1..Len(queryTerms) :
     queryTerms[k] = term /\ \A j \in 1..(k - 1) : queryTerms[j] # term) - 1

\* the loop with the priority of a term growing with its place in the
\* query: score = queryTerms.indexOf(term) + 1
RECURSIVE BestPositionLaterWins(_, _, _, _, _)
BestPositionLaterWins(text, queryTerms, k, bestScore, bestPosition) ==
  IF k > Len(queryTerms) THEN bestPosition
  ELSE LET position == indexOf(toLowerCase(text), queryTerms[k])
           score == TermIndex(queryTerms, queryTerms[k]) + 1
       IN IF position >= 0 /\ score > bestScore
            THEN BestPositionLaterWins(text, queryTerms, k + 1, score, Max2(0, position - 50))
            ELSE BestPositionLaterWins(text, queryTerms, k + 1, bestScore, bestPosition)

RECURSIVE BestPosition(_, _, _, _, _)
BestPosition(text, queryTerms, k, bestScore, bestPosition) ==
  IF k > Len(queryTerms) THEN bestPosition
  ELSE LET position == indexOf(toLowerCase(text), queryTerms[k])
           score == Len(queryTerms) - TermIndex(queryTerms, queryTerms[k])
       IN IF position >= 0 /\ score > bestScore
            THEN BestPosition(text, queryTerms, k + 1, score, Max2(0, position - 50))
            ELSE BestPosition(text, queryTerms, k + 1, bestScore, bestPosition)

Ellipsis == <<".", ".", ".">>

\* generateSnippet(indexItem, queryTerms)
generateSnippet(indexItem, queryTerms) ==
  LET text == indexItem.title \o <<" ">> \o indexItem.url
      maxLength == 150
      bestPosition == BestPosition(text, queryTerms, 1, 0, 0)
      window == substring(text, bestPosition, bestPosition + maxLength)
      prefixed == IF bestPosition > 0 THEN Ellipsis \o window ELSE window
  IN IF bestPosition + maxLength < Len(text) THEN prefixed \o Ellipsis ELSE prefixed

\* the comparator of "frequency" with its operands exchanged: aFreq - bFreq
SortKeyAscending(r, sortBy) ==
  CASE sortBy = "relevance" -> r.score
    [] sortBy = "date" -> IF r.type = "history" THEN r.item.timestamp ELSE r.item.dateAdded
    [] sortBy = "frequency" -> IF r.type = "history" THEN 0 - r.item.visitCount ELSE 0 - 1
    [] OTHER -> 0

\* the sort key of a result under sortBy; larger keys come first
SortKey(r, sortBy) ==
  CASE sortBy = "relevance" -> r.score
    [] sortBy = "date" -> IF r.type = "history" THEN r.item.timestamp ELSE r.item.dateAdded
    [] sortBy = "frequency" -> IF r.type = "history" THEN r.item.visitCount ELSE 1
    [] OTHER -> 0

\* insertion of r behind every result whose key is not smaller (stable)
RECURSIVE InsertSorted(_, _, _)
InsertSorted(sorted, r, sortBy) ==
  IF sorted = <<>> THEN <<r>>
  ELSE IF SortKey(Head(sorted), sortBy) >= SortKey(r, sortBy)
    THEN <<Head(sorted)>> \o InsertSorted(Tail(sorted), r, sortBy)
    ELSE <<r>> \o sorted

\* sortResults(results, sortBy): Array.prototype.sort is stable
RECURSIVE sortResults(_, _)
sortResults(results, sortBy) ==
  IF results = <<>> THEN <<>>
  ELSE InsertSorted(sortResults(SubSeq(results, 1, Len(results) - 1), sortBy),
                    results[Len(results)], sortBy)

(***************************************************************************)
(* Program constants and inputs                                            *)
(***************************************************************************)
\* SearchIndexManager.INDEX_UPDATE_INTERVAL
INDEX_UPDATE_INTERVAL == 5 * 60 * 1000
\* BrowserSettings.maxHistoryItems of the default settings
maxHistoryItems == 1000
\* the item.id browserStore hands to addToIndex: ''
EmptyId == <<>>

\* the clock advances in steps of half the refresh interval, from a time
\* that, like every Date.now(), is more than one interval after time 0
TickMs == INDEX_UPDATE_INTERVAL
StartNow == 2 * INDEX_UPDATE_INTERVAL

\* pages visited: { title, url } as index.tsx hands them to addToHistory
PageGit == [title |-> <<"G","i","t">>,
            url |-> <<"h","t","t","p","s",":","/","/","g","i","t",".","i","o">>]
Pages == {PageGit}
\* a page whose title holds the terms inside longer words
PageGitHub == [title |-> <<"G","i","t","H","u","b"," ","P","R","s">>,
               url |-> <<"h","t","t","p","s",":","/","/","g","i","t","h","u","b",".","c","o","m","/","p","r">>]

\* bookmarks created: { title, url, folder } as MenuModal hands them to
\* addBookmark, and one carrying tags; absent tags are the empty sequence
MarkHub == [title |-> <<"H","u","b">>,
            url |-> <<"h","t","t","p",":","/","/","w","w","w",".","h","u","b",".","i","o","/","x">>,
            folder |-> <<"d","e","f","a","u","l","t">>,
            tags |-> <<>>]
MarkGit == [title |-> <<"G","i","t">>,
            url |-> <<"h","t","t","p","s",":","/","/","g","i","t",".","i","o">>,
            folder |-> <<"W","o","r","k">>,
            tags |-> << <<"D","e","v">> >>]
Marks == {MarkHub, MarkGit}

\* queries handed to search
QueryEmpty == <<>>
QueryBlank == <<" ", "\t">>
QueryGit == <<" ", "G", "i", "t">>
QueryHub == <<"h", "u", "b">>
QueryFuzzy == <<"g", "i", "t", "s">>
QueryTwo == <<"g", "i", "t", ".", "d", "e", "v">>

\* SearchOptions after the defaults of search are applied
DefaultOptions == [limit |-> 50, includeHistory |-> TRUE, includeBookmarks |-> TRUE,
                   fuzzyMatch |-> TRUE, sortBy |-> "relevance"]
NoHistory == [DefaultOptions EXCEPT !.includeHistory = FALSE]
NoBookmarks == [DefaultOptions EXCEPT !.includeBookmarks = FALSE]
ExactByDate == [DefaultOptions EXCEPT !.fuzzyMatch = FALSE, !.sortBy = "date"]
TopByFrequency == [DefaultOptions EXCEPT !.limit = 1, !.sortBy = "frequency"]
TopByRelevance == [DefaultOptions EXCEPT !.limit = 1]

ByFrequency == [DefaultOptions EXCEPT !.sortBy = "frequency"]
TopTwo == [DefaultOptions EXCEPT !.limit = 2]
QueryGitHub == <<"G", "i", "t", "H", "u", "b">>
QueryGitHubs == <<"h", "u", "b", "!", " ", "g", "i", "t">>

\* the calls of search made on a prepared session
QueryCalls ==
  { [query |-> QueryGit, options |-> DefaultOptions],
    [query |-> QueryGit, options |-> TopByRelevance],
    [query |-> QueryGit, options |-> TopTwo],
    [query |-> QueryGit, options |-> ByFrequency],
    [query |-> QueryGit, options |-> TopByFrequency],
    [query |-> QueryGit, options |-> NoBookmarks],
    [query |-> QueryHub, options |-> NoHistory],
    [query |-> QueryHub, options |-> ExactByDate],
    [query |-> QueryGitHub, options |-> DefaultOptions],
    [query |-> QueryGitHubs, options |-> TopTwo],
    [query |-> QueryFuzzy, options |-> ByFrequency] }

\* the calls of search the model makes
SearchCalls ==
  { [query |-> QueryEmpty, options |-> DefaultOptions],
    [query |-> QueryBlank, options |-> ExactByDate],
    [query |-> QueryGit, options |-> ExactByDate],
    [query |-> QueryHub, options |-> NoHistory],
    [query |-> QueryGit, options |-> NoBookmarks],
    [query |-> QueryGit, options |-> TopByRelevance],
    [query |-> QueryFuzzy, options |-> DefaultOptions],
    [query |-> QueryTwo, options |-> TopByFrequency] }

(***************************************************************************)
(* Outcomes of the AsyncStorage calls made during one operation            *)
(***************************************************************************)
\* A read (AsyncStorage.getItem + JSON.parse) is "ok"; "fail": it throws and
\* the removeItem of the catch block throws too; "failRemoved": it throws
\* and the catch block removes the key.  The writes of saveIndex are "ok";
\* "failIndex": the first setItem throws; "failTimestamp": the second does.

NoFault == [readHistory |-> "ok", readBookmarks |-> "ok", refetch |-> "ok",
            readIndex |-> "ok", readTimestamp |-> "ok",
            writeRecords |-> "ok", save |-> "ok"]
Faults ==
  { NoFault,
    [NoFault EXCEPT !.readHistory = "fail"],
    [NoFault EXCEPT !.readHistory = "failRemoved"],
    [NoFault EXCEPT !.readBookmarks = "fail"],
    [NoFault EXCEPT !.refetch = "fail"],
    [NoFault EXCEPT !.readIndex = "fail"],
    [NoFault EXCEPT !.readIndex = "failRemoved"],
    [NoFault EXCEPT !.readTimestamp = "fail"],
    [NoFault EXCEPT !.writeRecords = "fail"],
    [NoFault EXCEPT !.save = "failIndex"],
    [NoFault EXCEPT !.save = "failTimestamp"] }

\* the outcomes in which only the calls named in points may fail
FaultsAt(points) == {f \in Faults : \A p \in (DOMAIN f) \ points : f[p] = "ok"}

(***************************************************************************)
(* StorageManager (src/unnamed/part_001).  A world w holds the parsed      *)
(* values under the AsyncStorage keys and the static fields of             *)
(* SearchIndexManager.  An absent key is held as the default its readers   *)
(* pass to getItem.                                                        *)
(***************************************************************************)
\* getItem without the fallback to defaultValue: what is stored is returned
getItemUnchecked(w, key, defaultValue, outcome) == [value |-> w[key], w |-> w]

\* StorageManager.getItem(key, defaultValue): never throws
getItem(w, key, defaultValue, outcome) ==
  CASE outcome = "ok" -> [value |-> w[key], w |-> w]
    [] outcome = "fail" -> [value |-> defaultValue, w |-> w]
    [] outcome = "failRemoved" ->
         [value |-> defaultValue, w |-> [w EXCEPT ![key] = defaultValue]]

\* StorageManager.setItem(key, value): rethrows the failure of AsyncStorage
setItem(w, key, value, ok) ==
  IF ok THEN [threw |-> FALSE, w |-> [w EXCEPT ![key] = value]]
        ELSE [threw |-> TRUE, w |-> w]

\* StorageManager.getHistory(): the value is always an array here
getHistory(w, outcome) == getItem(w, "history", <<>>, outcome)

\* StorageManager.getBookmarks()
getBookmarks(w, outcome) == getItem(w, "bookmarks", <<>>, outcome)

(***************************************************************************)
(* SearchIndexManager (src/utils/searchIndex.ts).  The Map index is the    *)
(* sequence of its values in insertion order.                              *)
(***************************************************************************)
HasKey(index, id) == \E i \in 1..Len(index) : index[i].id = id

\* a set that never finds the key: every entry is appended
MapSetAppend(index, indexItem) == Append(index, indexItem)

\* Map.prototype.set(indexItem.id, indexItem)
MapSet(index, indexItem) ==
  IF HasKey(index, indexItem.id)
    THEN [i \in 1..Len(index) |-> IF index[i].id = indexItem.id THEN indexItem ELSE index[i]]
    ELSE Append(index, indexItem)

\* a delete that removes the oldest entry instead of the entry with the id
MapDeleteOldest(index, id) == IF index = <<>> THEN index ELSE Tail(index)

\* Map.prototype.delete(id)
MapDelete(index, id) ==
  LET Other(e) == e.id # id IN SelectSeq(index, Other)

\* the for-loops of updateIndex: one createIndexItem and one set per record
RECURSIVE IndexAll(_, _, _, _)
IndexAll(index, items, type, t) ==
  IF items = <<>> THEN index
  ELSE IndexAll(MapSet(index, createIndexItem(Head(items), type, t)), Tail(items), type, t)

\* new Map(storedIndex.map(item => [item.id, item]))
RECURSIVE MapOf(_)
MapOf(items) ==
  IF items = <<>> THEN <<>>
  ELSE MapSet(MapOf(SubSeq(items, 1, Len(items) - 1)), items[Len(items)])

\* saveIndex() without its try block: the failure of setItem reaches the caller
saveIndexRethrows(w, t, outcome) ==
  LET first == setItem(w, "search_index", w.index, outcome # "failIndex")
      second == setItem(first.w, "search_index_timestamp", t, outcome # "failTimestamp")
  IN [threw |-> first.threw \/ second.threw,
      w |-> IF first.threw THEN first.w ELSE second.w]

\* saveIndex() at Date.now() = t: failures of setItem are caught and logged
saveIndex(w, t, outcome) ==
  LET first == setItem(w, "search_index", w.index, outcome # "failIndex")
      second == setItem(first.w, "search_index_timestamp", t, outcome # "failTimestamp")
  IN [threw |-> FALSE, w |-> IF first.threw THEN first.w ELSE second.w]

\* loadIndex(): getItem never throws and the stored items have ids, so the
\* catch block is not entered
loadIndex(w, f) ==
  LET storedIndex == getItem(w, "search_index", <<>>, f.readIndex)
      w1 == [storedIndex.w EXCEPT !.index = MapOf(storedIndex.value)]
      timestamp == getItem(w1, "search_index_timestamp", 0, f.readTimestamp)
  IN [threw |-> FALSE, w |-> [timestamp.w EXCEPT !.lastIndexUpdate = timestamp.value]]

\* a rebuild that merges into the entries it finds
BuildKeep(w) == w

\* updateIndex: "Clear existing index"
BuildClear(w) == [w EXCEPT !.index = <<>>]

\* updateIndex: "Index history items" / "Index bookmark items", the loop
\* over the array that getHistory or getBookmarks returned
BuildIndex(w, items, type, t) == [w EXCEPT !.index = IndexAll(@, items, type, t)]

\* updateIndex: this.lastIndexUpdate = now
BuildStamp(w, t) == [w EXCEPT !.lastIndexUpdate = t]

\* the interval check with <= in place of <
UpdateNeededLate(w, force, t) == force \/ ~((t - w.lastIndexUpdate) <= INDEX_UPDATE_INTERVAL)

\* the interval check of updateIndex
UpdateNeeded(w, force, t) == force \/ ~((t - w.lastIndexUpdate) < INDEX_UPDATE_INTERVAL)

\* updateIndex with the index cleared ahead of an interval check that
\* does not look at force
updateIndexClearFirst(w, force, t, f) ==
  IF ~UpdateNeeded(w, FALSE, t)
    THEN [threw |-> FALSE, w |-> BuildClear(w), rebuilt |-> FALSE]
    ELSE LET history == getHistory(BuildClear(w), f.readHistory)
             w1 == BuildIndex(history.w, history.value, "history", t)
             bookmarks == getBookmarks(w1, f.readBookmarks)
             w2 == BuildIndex(bookmarks.w, bookmarks.value, "bookmark", t)
             saved == saveIndex(BuildStamp(w2, t), t, f.save)
         IN [threw |-> FALSE, w |-> saved.w, rebuilt |-> TRUE]

\* updateIndex(force) at Date.now() = t; nothing inside the try block
\* throws, and the catch block would swallow it
updateIndex(w, force, t, f) ==
  IF ~UpdateNeeded(w, force, t)
    THEN [threw |-> FALSE, w |-> w, rebuilt |-> FALSE]
    ELSE LET history == getHistory(BuildClear(w), f.readHistory)
             w1 == BuildIndex(history.w, history.value, "history", t)
             bookmarks == getBookmarks(w1, f.readBookmarks)
             w2 == BuildIndex(bookmarks.w, bookmarks.value, "bookmark", t)
             saved == saveIndex(BuildStamp(w2, t), t, f.save)
         IN [threw |-> FALSE, w |-> saved.w, rebuilt |-> TRUE]

\* initialize() with updateIndex(true)
initializeForced(w, t, f) ==
  LET loaded == loadIndex(w, f)
      updated == updateIndex(loaded.w, TRUE, t, f)
  IN [threw |-> FALSE, w |-> updated.w, rebuilt |-> updated.rebuilt]

\* initialize(): loadIndex, then updateIndex() with the default force = false
initialize(w, t, f) ==
  LET loaded == loadIndex(w, f)
      updated == updateIndex(loaded.w, FALSE, t, f)
  IN [threw |-> FALSE, w |-> updated.w, rebuilt |-> updated.rebuilt]

\* addToIndex(item, type) at Date.now() = t
addToIndex(w, item, type, t, f) ==
  LET indexItem == createIndexItem(item, type, t)
      saved == saveIndex([w EXCEPT !.index = MapSet(@, indexItem)], t, f.save)
  IN [threw |-> saved.threw, w |-> saved.w]

\* removeFromIndex(id)
removeFromIndex(w, id, t, f) ==
  LET saved == saveIndex([w EXCEPT !.index = MapDelete(@, id)], t, f.save)
  IN [threw |-> saved.threw, w |-> saved.w]

\* clearIndex() without the call of saveIndex
clearIndexUnsaved(w, t, f) == [threw |-> FALSE, w |-> [w EXCEPT !.index = <<>>]]

\* clearIndex() that also resets lastIndexUpdate
clearIndexStale(w, t, f) ==
  LET saved == saveIndex([w EXCEPT !.index = <<>>, !.lastIndexUpdate = 0], t, f.save)
  IN [threw |-> saved.threw, w |-> saved.w]

\* clearIndex()
clearIndex(w, t, f) ==
  LET saved == saveIndex([w EXCEPT !.index = <<>>], t, f.save)
  IN [threw |-> saved.threw, w |-> saved.w]

\* getIndexStats()
getIndexStats(w) ==
  LET IsHistory(e) == e.type = "history"
      IsBookmark(e) == e.type = "bookmark"
  IN [ totalItems |-> Len(w.index),
       historyItems |-> Len(SelectSeq(w.index, IsHistory)),
       bookmarkItems |-> Len(SelectSeq(w.index, IsBookmark)),
       lastUpdate |-> w.lastIndexUpdate ]

\* the null that Array.prototype.find(...) || null gives
NullItem == [isNull |-> TRUE]

\* a find whose predicate does not compare the id
FindFirst(items, id) == IF items = <<>> THEN NullItem ELSE items[1]

\* history.find(item => item.id === id) || null
FindById(items, id) ==
  IF \E i \in 1..Len(items) : items[i].id = id
    THEN items[CHOOSE i \in 1..Len(items) :
                 items[i].id = id /\ \A j \in 1..(i - 1) : items[j].id # id]
    ELSE NullItem

\* getOriginalItem(id, type)
getOriginalItem(w, id, type, outcome) ==
  LET read == IF type = "history" THEN getHistory(w, outcome) ELSE getBookmarks(w, outcome)
  IN [item |-> FindById(read.value, id), w |-> read.w]

\* the push without the check of originalItem
PushResultUnchecked(results, originalItem, indexItem, matchResult, queryTerms) ==
  Append(results, [ item |-> originalItem,
                    type |-> indexItem.type,
                    score |-> matchResult.score,
                    matchedFields |-> matchResult.matchedFields,
                    snippet |-> generateSnippet(indexItem, queryTerms) ])

\* search: if (originalItem) { results.push({...}) }
PushResult(results, originalItem, indexItem, matchResult, queryTerms) ==
  IF originalItem # NullItem
    THEN Append(results, [ item |-> originalItem,
                           type |-> indexItem.type,
                           score |-> matchResult.score,
                           matchedFields |-> matchResult.matchedFields,
                           snippet |-> generateSnippet(indexItem, queryTerms) ])
    ELSE results

\* search: the body of the loop for a matching indexItem, once
\* getOriginalItem has resolved to original
SearchPush(acc, indexItem, matchResult, queryTerms, original) ==
  [ w |-> original.w,
    results |-> PushResult(acc.results, original.item, indexItem, matchResult, queryTerms) ]

\* search: if (matchResult.score > 0) { ... }
SearchMatch(acc, indexItem, matchResult, queryTerms, f) ==
  IF matchResult.score > 0
    THEN SearchPush(acc, indexItem, matchResult, queryTerms,
                    getOriginalItem(acc.w, indexItem.id, indexItem.type, f.refetch))
    ELSE acc

\* the loop body with the two kinds exchanged in the filter
SearchItemSwapped(acc, indexItem, options, queryTerms, f) ==
  IF \/ ~options.includeHistory /\ indexItem.type = "bookmark"
     \/ ~options.includeBookmarks /\ indexItem.type = "history"
    THEN acc
    ELSE SearchMatch(acc, indexItem,
                     calculateMatch(indexItem, queryTerms, options.fuzzyMatch),
                     queryTerms, f)

\* search: the body of the loop for one indexItem; acc holds the world and
\* the results so far
SearchItem(acc, indexItem, options, queryTerms, f) ==
  IF \/ ~options.includeHistory /\ indexItem.type = "history"
     \/ ~options.includeBookmarks /\ indexItem.type = "bookmark"
    THEN acc
    ELSE SearchMatch(acc, indexItem,
                     calculateMatch(indexItem, queryTerms, options.fuzzyMatch),
                     queryTerms, f)

\* search: the loop over this.index.values() from the k-th value on
RECURSIVE SearchLoop(_, _, _, _, _)
SearchLoop(acc, k, options, queryTerms, f) ==
  IF k > Len(acc.w.index) THEN acc
  ELSE SearchLoop(SearchItem(acc, acc.w.index[k], options, queryTerms, f),
                  k + 1, options, queryTerms, f)

\* sortResults reads a property of null: the comparator of "date" reads
\* item.timestamp or item.dateAdded of every result it compares, the one of
\* "frequency" item.visitCount of the history results
SortThrows(results, sortBy) ==
  /\ Len(results) > 1
  /\ \E i \in 1..Len(results) :
       /\ results[i].item = NullItem
       /\ \/ sortBy = "date"
          \/ sortBy = "frequency" /\ results[i].type = "history"

\* a slice that keeps the last limit results
LimitFromEnd(results, limit) ==
  SubSeq(results, Len(results) - Min2(limit, Len(results)) + 1, Len(results))

\* results.slice(0, limit)
Limit(results, limit) == SubSeq(results, 1, Min2(limit, Len(results)))

\* search: sortResults and the return, after the loop has left found
SearchReturn(rebuilt, found, options) ==
  IF SortThrows(found.results, options.sortBy)
    THEN [ threw |-> TRUE, results |-> <<>>, w |-> found.w,
           rebuilt |-> rebuilt, indexed |-> TRUE ]
    ELSE [ threw |-> FALSE,
           results |-> Limit(sortResults(found.results, options.sortBy), options.limit),
           w |-> found.w, rebuilt |-> rebuilt, indexed |-> TRUE ]

\* search: from normalizeQuery on, after updateIndex() has resolved to updated
SearchIndex(updated, queryTerms, options, f) ==
  SearchReturn(updated.rebuilt,
               SearchLoop([w |-> updated.w, results |-> <<>>], 1, options, queryTerms, f),
               options)

\* search with updateIndex() ahead of the check of the trimmed query
searchIndexFirst(w, query, options, t, f) ==
  IF trim(query) = <<>>
    THEN [ threw |-> FALSE, results |-> <<>>, w |-> updateIndex(w, FALSE, t, f).w,
           rebuilt |-> updateIndex(w, FALSE, t, f).rebuilt, indexed |-> FALSE ]
    ELSE SearchIndex(updateIndex(w, FALSE, t, f), normalizeQuery(query), options, f)

\* search(query, options) at Date.now() = t
search(w, query, options, t, f) ==
  IF trim(query) = <<>>
    THEN [threw |-> FALSE, results |-> <<>>, w |-> w, rebuilt |-> FALSE, indexed |-> FALSE]
    ELSE SearchIndex(updateIndex(w, FALSE, t, f), normalizeQuery(query), options, f)

(***************************************************************************)
(* Record operations of StorageManager.  The n-th generated id stands for  *)
(* `history_${Date.now()}_${random}` or `bookmark_${Date.now()}_${random}`.*)
(***************************************************************************)
UrlPosition(items, url) ==
  IF \E i \in 1..Len(items) : items[i].url = url
    THEN CHOOSE i \in 1..Len(items) :
           items[i].url = url /\ \A j \in 1..(i - 1) : items[j].url # url
    ELSE 0

\* StorageManager.addHistoryItem(item) at Date.now() = t
addHistoryItem(w, item, t, n, f) ==
  LET read == getHistory(w, f.readHistory)
      history == read.value
      existingIndex == UrlPosition(history, item.url)
      newItem == [id |-> <<"history", n>>, title |-> item.title, url |-> item.url,
                  timestamp |-> t, visitCount |-> 1]
      changed == IF existingIndex > 0
                   THEN [history EXCEPT ![existingIndex] =
                           [@ EXCEPT !.title = item.title, !.timestamp = t,
                                     !.visitCount = @ + 1]]
                   ELSE <<newItem>> \o history
      limited == SubSeq(changed, 1, Min2(maxHistoryItems, Len(changed)))
      written == setItem(read.w, "history", limited, f.writeRecords = "ok")
  IN [ threw |-> written.threw, w |-> written.w,
       id |-> IF existingIndex > 0 THEN history[existingIndex].id ELSE newItem.id,
       created |-> existingIndex = 0 ]

\* StorageManager.addBookmark(item) at Date.now() = t
addBookmarkItem(w, item, t, n, f) ==
  LET read == getBookmarks(w, f.readBookmarks)
      bookmarks == read.value
      exists == UrlPosition(bookmarks, item.url) > 0
      newBookmark == [id |-> <<"bookmark", n>>, title |-> item.title, url |-> item.url,
                      folder |-> item.folder, tags |-> item.tags, dateAdded |-> t]
      written == setItem(read.w, "bookmarks", <<newBookmark>> \o bookmarks,
                         f.writeRecords = "ok")
  IN IF exists
       THEN [threw |-> TRUE, w |-> read.w, id |-> newBookmark.id, created |-> FALSE]
       ELSE [threw |-> written.threw, w |-> written.w, id |-> newBookmark.id,
             created |-> ~written.threw]

\* StorageManager.removeBookmark(id)
removeBookmarkItem(w, id, f) ==
  LET read == getBookmarks(w, f.readBookmarks)
      Other(b) == b.id # id
  IN setItem(read.w, "bookmarks", SelectSeq(read.value, Other), f.writeRecords = "ok")

\* StorageManager.clearHistory()
clearHistoryItems(w, f) == setItem(w, "history", <<>>, f.writeRecords = "ok")

(***************************************************************************)
(* browserStore (src/store/browserStore.ts)                                *)
(***************************************************************************)
\* addToHistory(item); saving is settings.autoSaveHistory && !incognitoMode
addToHistory(w, item, saving, t, n, f) ==
  LET added == addHistoryItem(w, item, t, n, f)
      indexed == addToIndex(added.w,
                            [id |-> EmptyId, title |-> item.title, url |-> item.url,
                             timestamp |-> t, visitCount |-> 1],
                            "history", t, f)
      loaded == getHistory(indexed.w, f.readHistory)
  IN IF ~saving THEN [threw |-> FALSE, w |-> w, stored |-> FALSE, id |-> EmptyId]
     ELSE IF added.threw
       THEN [threw |-> FALSE, w |-> added.w, stored |-> FALSE, id |-> EmptyId]
     ELSE [threw |-> FALSE, w |-> loaded.w, stored |-> TRUE, id |-> added.id]

\* addBookmark(item): failures are rethrown to the caller
addBookmark(w, item, t, n, f) ==
  LET added == addBookmarkItem(w, item, t, n, f)
      indexed == addToIndex(added.w,
                            [id |-> EmptyId, title |-> item.title, url |-> item.url,
                             folder |-> item.folder, tags |-> item.tags, dateAdded |-> t],
                            "bookmark", t, f)
      loaded == getBookmarks(indexed.w, f.readBookmarks)
  IN IF added.threw
       THEN [threw |-> TRUE, w |-> added.w, stored |-> FALSE, id |-> EmptyId]
       ELSE [threw |-> FALSE, w |-> loaded.w, stored |-> TRUE, id |-> added.id]

\* removeBookmark(id)
removeBookmark(w, id, t, f) ==
  LET removed == removeBookmarkItem(w, id, f)
      unindexed == removeFromIndex(removed.w, id, t, f)
      loaded == getBookmarks(unindexed.w, f.readBookmarks)
  IN IF removed.threw THEN [threw |-> TRUE, w |-> removed.w]
                      ELSE [threw |-> FALSE, w |-> loaded.w]

\* clearHistory()
clearHistory(w, f) ==
  LET cleared == clearHistoryItems(w, f)
      loaded == getHistory(cleared.w, f.readHistory)
  IN IF cleared.threw THEN [threw |-> FALSE, w |-> cleared.w]
                      ELSE [threw |-> FALSE, w |-> loaded.w]

\* performSearch: catch (error) { return []; }
SearchCaught(found) == [found EXCEPT !.results = IF found.threw THEN <<>> ELSE @]

\* performSearch(query, options): a failure of search is caught
performSearch(w, query, options, t, f) == SearchCaught(search(w, query, options, t, f))

(***************************************************************************)
(* State                                                                   *)
(***************************************************************************)
VARIABLES
  now,                     \* Date.now()
  history,                 \* AsyncStorage: STORAGE_KEYS.HISTORY
  bookmarks,               \* AsyncStorage: STORAGE_KEYS.BOOKMARKS
  search_index,            \* AsyncStorage: 'search_index'
  search_index_timestamp,  \* AsyncStorage: 'search_index_timestamp'
  index,                   \* SearchIndexManager.index
  lastIndexUpdate,         \* SearchIndexManager.lastIndexUpdate
  task,                    \* the updateIndex call that is suspended at an await
  idCounter,               \* number of record ids generated so far
  steps,                   \* number of operations run so far
  faults,                  \* number of storage failures so far
  lastBuildAt,             \* the time of the last rebuild of the index, 0 before it
  last                     \* the operation that ran last and what it returned

vars == <<now, history, bookmarks, search_index, search_index_timestamp,
          index, lastIndexUpdate, task, idCounter, steps, faults, lastBuildAt, last>>

World ==
  [ history |-> history, bookmarks |-> bookmarks, search_index |-> search_index,
    search_index_timestamp |-> search_index_timestamp,
    index |-> index, lastIndexUpdate |-> lastIndexUpdate ]

\* no updateIndex call is suspended
Idle == [pc |-> "idle"]

\* the budget of a run allows one more operation under the storage outcomes f
MayRun(f) ==
  /\ steps < MaxSteps
  /\ f # NoFault => faults < MaxFaults

\* one more operation has run under the storage outcomes f and leaves the world w
Install(w, f) ==
  /\ steps' = steps + 1
  /\ faults' = IF f = NoFault THEN faults ELSE faults + 1
  /\ history' = w.history
  /\ bookmarks' = w.bookmarks
  /\ search_index' = w.search_index
  /\ search_index_timestamp' = w.search_index_timestamp
  /\ index' = w.index
  /\ lastIndexUpdate' = w.lastIndexUpdate

Init ==
  /\ now = StartNow
  /\ history = <<>>
  /\ bookmarks = <<>>
  /\ search_index = <<>>
  /\ search_index_timestamp = 0
  /\ index = <<>>
  /\ lastIndexUpdate = 0
  /\ task = Idle
  /\ idCounter = 0
  /\ steps = 0
  /\ faults = 0
  /\ lastBuildAt = 0
  /\ last = [op |-> "none"]

(***************************************************************************)
(* Operations, each run to completion                                      *)
(***************************************************************************)
\* time passes
Tick ==
  /\ MayRun(NoFault)
  /\ now' = now + TickMs
  /\ steps' = steps + 1
  /\ last' = [op |-> "tick"]
  /\ UNCHANGED <<history, bookmarks, search_index, search_index_timestamp,
                 index, lastIndexUpdate, task, idCounter, faults, lastBuildAt>>

\* a page is visited: browserStore.addToHistory
AddToHistory ==
  \E item \in Pages, saving \in BOOLEAN,
     f \in FaultsAt({"readHistory", "writeRecords", "save"}) :
    /\ MayRun(f)
    /\ \E r \in {addToHistory(World, item, saving, now, idCounter + 1, f)} :
         /\ Install(r.w, f)
         /\ idCounter' = IF r.stored /\ ~HasKey(MapOf(history), r.id)
                         THEN idCounter + 1 ELSE idCounter
         /\ last' = [op |-> "addToHistory", stored |-> r.stored, id |-> r.id,
                     item |-> item, had |-> HasKey(index, EmptyId),
                     threw |-> r.threw, f |-> f]
         /\ UNCHANGED <<now, task, lastBuildAt>>

\* a page is bookmarked: browserStore.addBookmark
AddBookmark ==
  \E item \in Marks, f \in FaultsAt({"readBookmarks", "writeRecords", "save"}) :
    /\ MayRun(f)
    /\ \E r \in {addBookmark(World, item, now, idCounter + 1, f)} :
         /\ Install(r.w, f)
         /\ idCounter' = IF r.stored THEN idCounter + 1 ELSE idCounter
         /\ last' = [op |-> "addBookmark", stored |-> r.stored, id |-> r.id,
                     item |-> item, had |-> HasKey(index, EmptyId),
                     threw |-> r.threw, f |-> f]
         /\ UNCHANGED <<now, task, lastBuildAt>>

\* a listed bookmark is deleted: browserStore.removeBookmark
RemoveBookmark ==
  \E i \in 1..Len(bookmarks), f \in FaultsAt({"readBookmarks", "writeRecords", "save"}) :
    /\ MayRun(f)
    /\ \E r \in {removeBookmark(World, bookmarks[i].id, now, f)} :
         /\ Install(r.w, f)
         /\ last' = [op |-> "removeBookmark", id |-> bookmarks[i].id,
                     had |-> HasKey(index, bookmarks[i].id),
                     threw |-> r.threw, f |-> f]
         /\ UNCHANGED <<now, task, idCounter, lastBuildAt>>

\* browserStore.clearHistory
ClearHistory ==
  \E f \in FaultsAt({"readHistory", "writeRecords"}) :
    /\ MayRun(f)
    /\ \E r \in {clearHistory(World, f)} :
         /\ Install(r.w, f)
         /\ last' = [op |-> "clearHistory", threw |-> r.threw, f |-> f]
         /\ UNCHANGED <<now, task, idCounter, lastBuildAt>>

\* the application starts: browserStore.initializeSearch on the static
\* fields of a new process
InitializeSearch ==
  \E f \in FaultsAt({"readIndex", "readTimestamp", "readHistory", "save"}) :
    /\ MayRun(f)
    /\ \E r \in {initialize([World EXCEPT !.index = <<>>, !.lastIndexUpdate = 0], now, f)} :
         /\ Install(r.w, f)
         /\ last' = [op |-> "initialize", threw |-> r.threw, rebuilt |-> r.rebuilt,
                     f |-> f]
         /\ lastBuildAt' = (IF r.rebuilt THEN now ELSE lastBuildAt)
         /\ UNCHANGED <<now, task, idCounter>>

\* browserStore.performSearch -> SearchIndexManager.search, for one of calls
SearchWith(calls) ==
  \E call \in calls,
     f \in FaultsAt({"readHistory", "refetch", "save"}) :
    /\ MayRun(f)
    /\ \E r \in {performSearch(World, call.query, call.options, now, f)} :
         /\ Install(r.w, f)
         /\ last' = [op |-> "search", call |-> call, blank |-> trim(call.query) = <<>>,
                     results |-> r.results, threw |-> r.threw,
                     rebuilt |-> r.rebuilt, entries |-> r.w.index,
                     task |-> task, f |-> f]
         /\ lastBuildAt' = (IF r.rebuilt THEN now ELSE lastBuildAt)
         /\ UNCHANGED <<now, task, idCounter>>

Search == SearchWith(SearchCalls)

\* SearchIndexManager.updateIndex(force); again: the operation before it
\* was a forced updateIndex that read the records
UpdateIndex ==
  \E force \in BOOLEAN, f \in FaultsAt({"readHistory", "readBookmarks", "save"}) :
    /\ MayRun(f)
    /\ \E r \in {updateIndex(World, force, now, f)} :
         /\ Install(r.w, f)
         /\ last' = [op |-> "updateIndex", force |-> force, threw |-> r.threw,
                     rebuilt |-> r.rebuilt,
                     replaced |-> {index[i].id : i \in 1..Len(index)},
                     again |-> /\ last.op = "updateIndex"
                               /\ last.force
                               /\ last.f.readHistory = "ok"
                               /\ last.f.readBookmarks = "ok",
                     f |-> f]
         /\ lastBuildAt' = (IF r.rebuilt THEN now ELSE lastBuildAt)
         /\ UNCHANGED <<now, task, idCounter>>

\* SearchIndexManager.clearIndex()
ClearIndex ==
  \E f \in FaultsAt({"save"}) :
    /\ MayRun(f)
    /\ \E r \in {clearIndex(World, now, f)} :
         /\ Install(r.w, f)
         /\ last' = [op |-> "clearIndex", threw |-> r.threw, f |-> f]
         /\ UNCHANGED <<now, task, idCounter, lastBuildAt>>

\* SearchIndexManager.getIndexStats(): synchronous, it reads this.index as
\* it is when it is called
GetIndexStats ==
  /\ MayRun(NoFault)
  /\ steps' = steps + 1
  /\ last' = [op |-> "getIndexStats", stats |-> getIndexStats(World),
              entries |-> index, task |-> task]
  /\ UNCHANGED <<now, history, bookmarks, search_index, search_index_timestamp,
                 index, lastIndexUpdate, task, idCounter, faults, lastBuildAt>>

Next ==
  \/ Tick
  \/ AddToHistory
  \/ AddBookmark
  \/ RemoveBookmark
  \/ ClearHistory
  \/ InitializeSearch
  \/ Search
  \/ UpdateIndex
  \/ ClearIndex
  \/ GetIndexStats

Spec == Init /\ [][Next]_vars

(***************************************************************************)
(* updateIndex step by step.  The call runs synchronously up to each await *)
(* (getHistory, getBookmarks, saveIndex); other callers run while it is    *)
(* suspended there.                                                        *)
(***************************************************************************)
\* updateIndex(force) returns at the interval check
BuildSkip ==
  \E force \in BOOLEAN :
    /\ MayRun(NoFault)
    /\ task = Idle
    /\ ~UpdateNeeded(World, force, now)
    /\ steps' = steps + 1
    /\ last' = [op |-> "build", force |-> force, pc |-> "return"]
    /\ UNCHANGED <<now, history, bookmarks, search_index, search_index_timestamp,
                   index, lastIndexUpdate, task, idCounter, faults, lastBuildAt>>

\* updateIndex(force) up to `await StorageManager.getHistory()`
BuildStart ==
  \E force \in BOOLEAN :
    /\ MayRun(NoFault)
    /\ task = Idle
    /\ UpdateNeeded(World, force, now)
    /\ index' = BuildClear(World).index
    /\ task' = [pc |-> "getHistory", now |-> now, before |-> index]
    /\ steps' = steps + 1
    /\ last' = [op |-> "build", force |-> force, pc |-> "getHistory"]
    /\ UNCHANGED <<now, history, bookmarks, search_index, search_index_timestamp,
                   lastIndexUpdate, idCounter, faults, lastBuildAt>>

\* getHistory() resolves: up to `await StorageManager.getBookmarks()`
BuildHistory ==
  /\ task.pc = "getHistory"
  /\ \E read \in {getHistory(World, "ok")} :
       index' = BuildIndex(read.w, read.value, "history", task.now).index
  /\ task' = [task EXCEPT !.pc = "getBookmarks"]
  /\ last' = [op |-> "build", pc |-> "getBookmarks"]
  /\ UNCHANGED <<now, history, bookmarks, search_index, search_index_timestamp,
                 lastIndexUpdate, idCounter, steps, faults, lastBuildAt>>

\* getBookmarks() resolves: up to the first await of saveIndex()
BuildBookmarks ==
  /\ task.pc = "getBookmarks"
  /\ \E read \in {getBookmarks(World, "ok")} :
       /\ index' = BuildIndex(read.w, read.value, "bookmark", task.now).index
       /\ lastIndexUpdate' = BuildStamp(read.w, task.now).lastIndexUpdate
       /\ lastBuildAt' = task.now
  /\ task' = [task EXCEPT !.pc = "saveIndex"]
  /\ last' = [op |-> "build", pc |-> "saveIndex"]
  /\ UNCHANGED <<now, history, bookmarks, search_index, search_index_timestamp,
                 idCounter, steps, faults>>

\* the setItem calls of saveIndex() resolve and updateIndex returns
BuildSave ==
  /\ task.pc = "saveIndex"
  /\ \E saved \in {saveIndex(World, now, "ok")} :
       /\ search_index' = saved.w.search_index
       /\ search_index_timestamp' = saved.w.search_index_timestamp
  /\ task' = Idle
  /\ last' = [op |-> "build", pc |-> "return"]
  /\ UNCHANGED <<now, history, bookmarks, index, lastIndexUpdate,
                 idCounter, steps, faults, lastBuildAt>>

\* a search whose own updateIndex() returns at the interval check
SearchFresh == ~UpdateNeeded(World, FALSE, now) /\ Search

NextAsync ==
  \/ Tick
  \/ AddToHistory
  \/ AddBookmark
  \/ BuildSkip
  \/ BuildStart
  \/ BuildHistory
  \/ BuildBookmarks
  \/ BuildSave
  \/ SearchFresh
  \/ GetIndexStats

SpecAsync == Init /\ [][NextAsync]_vars

(***************************************************************************)
(* search on a prepared session: the store as a session of browserStore    *)
(* calls leaves it, and one call of search on it.                          *)
(***************************************************************************)
EmptyWorld ==
  [ history |-> <<>>, bookmarks |-> <<>>, search_index |-> <<>>,
    search_index_timestamp |-> 0, index |-> <<>>, lastIndexUpdate |-> 0 ]

\* k visits of the page item, whose record has the n-th generated id
RECURSIVE Visits(_, _, _, _, _)
Visits(w, item, k, t, n) ==
  IF k = 0 THEN w
  ELSE Visits(addToHistory(w, item, TRUE, t, n, NoFault).w, item, k - 1, t, n)

\* the pages of marks bookmarked one after the other, ids from the n-th on
RECURSIVE MarkAll(_, _, _, _)
MarkAll(w, marks, t, n) ==
  IF marks = <<>> THEN w
  ELSE MarkAll(addBookmark(w, Head(marks), t, n, NoFault).w, Tail(marks), t, n + 1)

MarkOrders ==
  { <<>>, <<MarkHub>>, <<MarkGit>>, <<MarkHub, MarkGit>>, <<MarkGit, MarkHub>> }

\* v visits of PageGit, the bookmarks of marks, a forced updateIndex when
\* built, then u visits of PageGitHub, all at time t
Session(v, marks, built, u, t) ==
  LET visited == Visits(EmptyWorld, PageGit, v, t, 1)
      marked == MarkAll(visited, marks, t, 2)
      updated == IF built THEN updateIndex(marked, TRUE, t, NoFault).w ELSE marked
  IN Visits(updated, PageGitHub, u, t, 4)

InitQuery ==
  \E v \in 0..MaxVisits, u \in 0..MaxVisits, marks \in MarkOrders, built \in BOOLEAN :
    \E w \in {Session(v, marks, built, u, StartNow)} :
      /\ now = StartNow
      /\ history = w.history
      /\ bookmarks = w.bookmarks
      /\ search_index = w.search_index
      /\ search_index_timestamp = w.search_index_timestamp
      /\ index = w.index
      /\ lastIndexUpdate = w.lastIndexUpdate
      /\ task = Idle
      /\ idCounter = 4
      /\ steps = 0
      /\ faults = 0
      /\ lastBuildAt = (IF built THEN StartNow ELSE 0)
      /\ last = [op |-> "none"]

\* the one call of search
Query == steps = 0 /\ SearchWith(QueryCalls)

NextQuery == Query

SpecQuery == InitQuery /\ [][NextQuery]_vars

(***************************************************************************)
(* The functions of the scorer on their own: each action applies one of    *)
(* them once to inputs drawn from the sets below.                          *)
(***************************************************************************)

\* history and bookmark records as StorageManager stores them
RecGitHub ==
  [ id |-> <<"history", 1>>, title |-> <<"G", "i", "t", "H", "u", "b">>,
    url |-> <<"h", "t", "t", "p", "s", ":", "/", "/", "g", "i", "t", "h", "u", "b", ".", "c", "o", "m">>, timestamp |-> StartNow, visitCount |-> 1 ]
RecOpenAI ==
  [ id |-> <<"history", 2>>, title |-> <<"O", "p", "e", "n", "A", "I", " ", "B", "l", "o", "g">>,
    url |-> <<"h", "t", "t", "p", "s", ":", "/", "/", "o", "p", "e", "n", "a", "i", ".", "c", "o", "m", "/", "b", "l", "o", "g">>, timestamp |-> StartNow, visitCount |-> 5 ]
RecTax ==
  [ id |-> <<"bookmark", 3>>, title |-> <<"T", "a", "x", " ", "F", "o", "r", "m", "s">>,
    url |-> <<"h", "t", "t", "p", "s", ":", "/", "/", "i", "r", "s", ".", "g", "o", "v", "/", "f", "o", "r", "m", "s">>, folder |-> <<"W", "o", "r", "k">>,
    tags |-> << <<"U", "r", "g", "e", "n", "t">> >>, dateAdded |-> StartNow ]

\* the k-th of a list of distinct words: "w01", "w02", ...
Word(k) ==
  LET Digits == <<"0","1","2","3","4","5","6","7","8","9">>
  IN <<"w", Digits[(k \div 10) + 1], Digits[(k % 10) + 1]>>

\* a title of k distinct words
RECURSIVE Words(_)
Words(k) == IF k = 0 THEN <<>> ELSE IF k = 1 THEN Word(1) ELSE Words(k - 1) \o <<" ">> \o Word(k)

\* a bookmark whose title has k words and that carries a folder and tags
RecWords(k, tags) ==
  [ id |-> <<"bookmark", 4>>, title |-> Words(k), url |-> <<"h", "t", "t", "p", ":", "/", "/", "x", ".", "y">>,
    folder |-> <<"R", "e", "a", "d">>, tags |-> tags, dateAdded |-> StartNow ]

\* a history record whose title holds "Git" behind before filler characters
\* and in front of after filler characters
Filler(n) == [i \in 1..n |-> "x"]
RecPadded(before, after) ==
  [ id |-> <<"history", 5>>,
    title |-> Filler(before) \o <<" ", "G", "i", "t", " ">> \o Filler(after),
    url |-> <<"h", "t", "t", "p", "s", ":", "/", "/", "g", "i", "t", ".", "i", "o">>, timestamp |-> StartNow, visitCount |-> 1 ]
Paddings == {0, 40, 49, 50, 60}
Trailers == {0, 70, 80, 90, 130, 200}

\* the records createIndexItem is applied to, each with its kind
CreateInputs ==
  { [item |-> RecGitHub, type |-> "history"], [item |-> RecOpenAI, type |-> "history"],
    [item |-> RecTax, type |-> "bookmark"] }
    \cup { [item |-> RecWords(k, tags), type |-> "bookmark"] :
             k \in {1, 18, 19, 20, 22},
             tags \in { <<>>, << <<"o", "n", "e">> >>, << <<"o", "n", "e">>, <<"t", "w", "o">> >> } }

\* the entries calculateMatch is applied to
MatchEntries ==
  { createIndexItem(c.item, c.type, StartNow) :
      c \in { [item |-> RecGitHub, type |-> "history"], [item |-> RecOpenAI, type |-> "history"],
               [item |-> RecTax, type |-> "bookmark"],
               [item |-> RecWords(2, << <<"o", "n", "e">> >>), type |-> "bookmark"] } }

\* the queries given to normalizeQuery and calculateMatch
QueryGihtub == <<"g", "i", "h", "t", "u", "b">>
QueryGithb == <<"g", "i", "t", "h", "b">>
MatchQueries ==
  { QueryGihtub, QueryGithb, QueryGitHub, QueryGit, QueryHub, QueryFuzzy, QueryGitHubs,
    <<"o", "p", "e", "n", "a", "i">>, <<"O", "p", "e", "n", "A", "I", " ", "b", "l", "o", "g">>, <<"u", "r", "g", "e", "n", "t">>, <<"w", "o", "r", "k">>, <<"f", "o", "r", "m", "s", " ", "u", "r", "g", "e", "n", "t">>,
    <<"t", "a", "x", " ", "f", "o", "r", "m", "s", " ", "g", "o", "v">>, <<"w", "0", "1">>, <<"w", "0", "1", " ", "r", "e", "d", " ", "o", "n", "e">>, <<"b", "l", "o", "g", " ", "b", "l", "o", "g">>,
    <<"o", "p", "n", "a", "i">>, <<"u", "r", "g", "n", "t", " ", "t", "a", "x">>, <<"z", "z", "z">> }

\* the term lists given to generateSnippet
SnippetTerms ==
  { << <<"g", "i", "t">> >>, << <<"i", "o">>, <<"g", "i", "t">> >>, << <<"z", "z", "z">> >>,
    << <<"z", "z", "z">>, <<"g", "i", "t">> >>, << <<"g", "i", "t">>, <<"h", "t", "t", "p", "s">> >>,
    << <<"x", "x">>, <<"g", "i", "t">> >> }

\* the strings over two letters up to the length n
RECURSIVE StringsUpTo(_)
StringsUpTo(n) ==
  IF n = 0 THEN { <<>> }
  ELSE StringsUpTo(n - 1)
         \cup { Append(x, c) : x \in {y \in StringsUpTo(n - 1) : Len(y) = n - 1}, c \in {"a", "b"} }

\* the strings levenshteinSimilarity is applied to
SimilarityInputs == StringsUpTo(MaxLen) \cup { QueryGihtub, QueryGithb, toLowerCase(QueryGitHub) }

\* one application of a function has not happened yet
Fresh == last.op = "none"

\* the state apart from last stays as Init leaves it
Pure ==
  UNCHANGED <<now, history, bookmarks, search_index, search_index_timestamp, index,
              lastIndexUpdate, task, idCounter, steps, faults, lastBuildAt>>

\* levenshteinSimilarity(a, b) and levenshteinSimilarity(b, a)
Similarity ==
  /\ Fresh
  /\ \E a \in SimilarityInputs, b \in SimilarityInputs :
      /\ last' = [ op |-> "levenshteinSimilarity", a |-> a, b |-> b,
                   distance |-> editDistance(a, b), distanceBack |-> editDistance(b, a),
                   similarity |-> levenshteinSimilarity(a, b),
                   similarityBack |-> levenshteinSimilarity(b, a) ]
      /\ Pure

\* createIndexItem(item, type)
Create ==
  /\ Fresh
  /\ \E c \in CreateInputs :
      /\ last' = [ op |-> "createIndexItem", item |-> c.item, type |-> c.type,
                   indexItem |-> createIndexItem(c.item, c.type, now) ]
      /\ Pure

\* calculateMatch(indexItem, normalizeQuery(query), fuzzyMatch)
Match ==
  /\ Fresh
  /\ \E indexItem \in MatchEntries, query \in MatchQueries, fuzzyMatch \in BOOLEAN :
      /\ last' = [ op |-> "calculateMatch", indexItem |-> indexItem,
                   queryTerms |-> normalizeQuery(query), fuzzyMatch |-> fuzzyMatch,
                   match |-> calculateMatch(indexItem, normalizeQuery(query), fuzzyMatch) ]
      /\ Pure

\* generateSnippet(indexItem, queryTerms)
Snippet ==
  /\ Fresh
  /\ \E before \in Paddings, after \in Trailers, queryTerms \in SnippetTerms :
      \E indexItem \in {createIndexItem(RecPadded(before, after), "history", now)} :
        /\ last' = [ op |-> "generateSnippet", indexItem |-> indexItem,
                     queryTerms |-> queryTerms,
                     snippet |-> generateSnippet(indexItem, queryTerms) ]
        /\ Pure

NextPure ==
  \/ Similarity
  \/ Create
  \/ Match
  \/ Snippet

SpecPure == Init /\ [][NextPure]_vars

(***************************************************************************)
(* Operations on a prepared session: the store as a session of             *)
(* browserStore calls and a forced updateIndex leave it, and the           *)
(* operations of the model run on it.                                      *)
(***************************************************************************)
\* the stores the operations start from: the records of the Record Source
\* as StorageManager holds them, indexed by a forced updateIndex at StartNow
Sessions ==
  { updateIndex([EmptyWorld EXCEPT !.history = records[1], !.bookmarks = records[2]],
                TRUE, StartNow, NoFault).w :
      records \in { << <<RecGitHub>>, <<RecTax>> >>, << <<RecOpenAI>>, <<>> >>,
                     << <<RecOpenAI, RecGitHub>>, <<>> >> } }

InitSession ==
  \E w \in Sessions :
    /\ now = StartNow
    /\ history = w.history
    /\ bookmarks = w.bookmarks
    /\ search_index = w.search_index
    /\ search_index_timestamp = w.search_index_timestamp
    /\ index = w.index
    /\ lastIndexUpdate = w.lastIndexUpdate
    /\ task = Idle
    /\ idCounter = 5
    /\ steps = 0
    /\ faults = 0
    /\ lastBuildAt = StartNow
    /\ last = [op |-> "none"]

\* the calls of search made after the operations
SessionCalls ==
  { [query |-> QueryGitHub, options |-> DefaultOptions],
    [query |-> toLowerCase(SubSeq(RecOpenAI.title, 1, 6)), options |-> DefaultOptions] }

NextSession ==
  /\ steps < MaxOps
  /\ \/ Tick
     \/ AddToHistory
     \/ AddBookmark
     \/ RemoveBookmark
     \/ ClearIndex
     \/ UpdateIndex
     \/ SearchWith(SessionCalls)

SpecSession == InitSession /\ [][NextSession]_vars

(***************************************************************************)
(* Properties                                                              *)
(***************************************************************************)
EntryIds(entries) == {entries[i].id : i \in 1..Len(entries)}
EntryKeys(entries) == {<<entries[i].id, entries[i].type>> : i \in 1..Len(entries)}
RecordIds ==
  {history[i].id : i \in 1..Len(history)} \cup {bookmarks[i].id : i \in 1..Len(bookmarks)}
RecordKeysOf(h, b) ==
  {<<h[i].id, "history">> : i \in 1..Len(h)} \cup {<<b[i].id, "bookmark">> : i \in 1..Len(b)}
RecordKeys == RecordKeysOf(history, bookmarks)
\* the entries a rebuild at the present time derives from the Record Source
DerivedFrom(h, b, t) == IndexAll(IndexAll(<<>>, h, "history", t), b, "bookmark", t)
Derived == DerivedFrom(history, bookmarks, now)
\* the reads of the Record Source succeed
FetchOk(f) == f.readHistory = "ok" /\ f.readBookmarks = "ok"
\* the record browserStore hands to addToIndex
HandedRecord(op, item, t) ==
  IF op = "addToHistory"
    THEN [id |-> EmptyId, title |-> item.title, url |-> item.url,
          timestamp |-> t, visitCount |-> 1]
    ELSE [id |-> EmptyId, title |-> item.title, url |-> item.url,
          folder |-> item.folder, tags |-> item.tags, dateAdded |-> t]
HandedType(op) == IF op = "addToHistory" THEN "history" ELSE "bookmark"

\* C1: a search whose query is empty or only whitespace returns the empty
\* sequence and does not touch the index: the entries, lastIndexUpdate and
\* the persisted snapshot stay as they were and no rebuild runs, also when
\* lastIndexUpdate is older than the refresh interval.
C1_BlankQueryNoAccess ==
  [][(last'.op = "search" /\ last'.blank) =>
       /\ last'.results = <<>>
       /\ ~last'.threw
       /\ ~last'.rebuilt
       /\ UNCHANGED <<index, lastIndexUpdate, search_index, search_index_timestamp,
                      history, bookmarks>>]_vars

\* a blank search on a stale index that a rebuild would have changed
C1_Witness ==
  /\ last.op = "search"
  /\ last.blank
  /\ index # <<>>
  /\ now - lastIndexUpdate >= INDEX_UPDATE_INTERVAL
  /\ EntryIds(index) # RecordIds

\* C2: search returns a sequence and never raises, whatever the reads of
\* the Record Source and the writes of the snapshot do.
C2_SearchNeverRaises ==
  last.op = "search" =>
    /\ last.threw = FALSE
    /\ DOMAIN last.results = 1..Len(last.results)

\* a search over several entries whose records cannot be fetched
C2_Witness ==
  /\ last.op = "search"
  /\ ~last.blank
  /\ last.f.refetch = "fail"
  /\ Len(last.entries) > 1
  /\ last.results = <<>>

\* C3: a reader that runs while a rebuild is suspended iterates either the
\* entries the index held before the rebuild or the complete entries of the
\* Record Source, never an emptied or half filled map.
C3_ReadersSeeCompleteStore ==
  (/\ last.op \in {"getIndexStats", "search"}
   /\ last.op = "search" => ~last.blank
   /\ last.task.pc # "idle")
    => \/ last.entries = last.task.before
       \/ EntryKeys(last.entries) = RecordKeys

\* C4: when a read of the Record Source fails during a rebuild, updateIndex
\* returns normally, the index keeps the entries it held and lastIndexUpdate
\* is not advanced.
C4_FetchFailureKeepsIndex ==
  [][(last'.op = "updateIndex" /\ last'.rebuilt /\ ~FetchOk(last'.f)) =>
       /\ ~last'.threw
       /\ UNCHANGED <<index, lastIndexUpdate>>]_vars

\* C5 as claimed: after initialize with every read succeeding the index
\* holds exactly the entries derived from the Record Source, whatever
\* timestamp was persisted.
C5_InitializeForcesBuild ==
  (last.op = "initialize" /\ last.f = NoFault) => index = Derived

\* C5 as amended: initialize loads the snapshot and its timestamp and runs
\* updateIndex without force: with every read succeeding, a persisted
\* timestamp less than the refresh interval old leaves the index at the
\* loaded snapshot and lastIndexUpdate at the persisted timestamp; otherwise
\* the index holds exactly the entries derived from the Record Source and
\* lastIndexUpdate is the present time.
C5_InitializeRespectsInterval ==
  [][(/\ last'.op = "initialize"
      /\ FetchOk(last'.f) /\ last'.f.readIndex = "ok" /\ last'.f.readTimestamp = "ok") =>
       IF now - search_index_timestamp < INDEX_UPDATE_INTERVAL
         THEN /\ ~last'.rebuilt
              /\ index' = MapOf(search_index)
              /\ lastIndexUpdate' = search_index_timestamp
         ELSE /\ last'.rebuilt
              /\ index' = DerivedFrom(history', bookmarks', now)
              /\ lastIndexUpdate' = now]_vars

\* initialize kept a snapshot that differs from the Record Source
C5_Witness ==
  /\ last.op = "initialize"
  /\ last.f = NoFault
  /\ ~last.rebuilt
  /\ index # <<>>
  /\ EntryIds(index) # RecordIds

\* C6: updateIndex without force less than the refresh interval after
\* lastIndexUpdate changes nothing and reads nothing; with force, or once the
\* interval has passed, it rebuilds and lastIndexUpdate becomes the present
\* time.
C6_BuildInterval ==
  [][last'.op = "updateIndex" =>
       IF ~last'.force /\ now - lastIndexUpdate < INDEX_UPDATE_INTERVAL
         THEN /\ ~last'.rebuilt
              /\ UNCHANGED <<index, lastIndexUpdate, search_index,
                             search_index_timestamp, history, bookmarks>>
         ELSE /\ last'.rebuilt
              /\ lastIndexUpdate' = now]_vars

\* an unforced updateIndex returned early although the index differs from
\* the Record Source
C6_Witness ==
  /\ last.op = "updateIndex"
  /\ ~last.force
  /\ ~last.rebuilt
  /\ EntryIds(index) # RecordIds

\* C7: after a rebuild whose reads succeed the ids in the index are exactly
\* the ids of the history and bookmark records of the Record Source, one
\* entry each, with the record's kind.
C7_RebuildReplaces ==
  (/\ last.op \in {"updateIndex", "initialize", "search"}
   /\ last.rebuilt
   /\ last.f \in {NoFault, [NoFault EXCEPT !.save = "failIndex"],
                  [NoFault EXCEPT !.save = "failTimestamp"]})
    => /\ EntryKeys(index) = RecordKeys
       /\ Len(index) = Len(history) + Len(bookmarks)

\* a rebuild dropped the entry that addToIndex had put under the id ''
C7_Witness ==
  /\ last.op = "updateIndex"
  /\ last.rebuilt
  /\ last.f = NoFault
  /\ EmptyId \in last.replaced
  /\ index # <<>>
  /\ ~HasKey(index, EmptyId)

C9_CreatedRecordIndexed ==
  (last.op \in {"addToHistory", "addBookmark"} /\ last.stored) => HasKey(index, last.id)

\* C10: addToIndex puts the entry derived from the record it is handed
\* under the record's id, in place of an entry with that id, leaves the
\* entries with other ids and lastIndexUpdate as they were, and persists the
\* snapshot when the writes succeed.
C10_AddEntryUpserts ==
  [][(last'.op \in {"addToHistory", "addBookmark"} /\ last'.stored) =>
       /\ \E j \in 1..Len(index') :
            index'[j] = createIndexItem(HandedRecord(last'.op, last'.item, now),
                                        HandedType(last'.op), now)
       /\ Cardinality({j \in 1..Len(index') : index'[j].id = EmptyId}) = 1
       /\ \A i \in 1..Len(index) :
            index[i].id # EmptyId => \E j \in 1..Len(index') : index'[j] = index[i]
       /\ EntryIds(index') = EntryIds(index) \cup {EmptyId}
       /\ lastIndexUpdate' = lastIndexUpdate
       /\ last'.f.save = "ok" =>
            search_index' = index' /\ search_index_timestamp' = now]_vars

\* a bookmark was indexed over the entry that the id '' already had
C10_Witness ==
  /\ last.op = "addBookmark"
  /\ last.stored
  /\ last.had
  /\ history # <<>>
  /\ Len(index) = 1

\* C11: removeFromIndex(id) takes the entry with that id out of the index
\* and leaves every other entry as it was; without such an entry it raises
\* nothing and the entries stay as they were; in both cases the snapshot is
\* written, and it holds the entries of the index when the write succeeds.
C11_RemoveEntryDeletes ==
  [][(last'.op = "removeBookmark" /\ ~last'.threw) =>
       /\ ~HasKey(index', last'.id)
       /\ \A i \in 1..Len(index) :
            index[i].id # last'.id => \E j \in 1..Len(index') : index'[j] = index[i]
       /\ Len(index') = Len(index) - (IF HasKey(index, last'.id) THEN 1 ELSE 0)
       /\ lastIndexUpdate' = lastIndexUpdate
       /\ last'.f.save = "ok" => search_index' = index']_vars

\* the bookmark that was deleted had an entry under its id
C11_Witness ==
  /\ last.op = "removeBookmark"
  /\ ~last.threw
  /\ last.had
  /\ ~HasKey(index, last.id)

\* the operation that ran last changed the entries of the index and called
\* saveIndex: a rebuild, addToIndex, removeFromIndex or clearIndex
Mutated(l) ==
  \/ l.op \in {"updateIndex", "search", "initialize"} /\ l.rebuilt
  \/ l.op \in {"addToHistory", "addBookmark"} /\ l.stored
  \/ l.op = "removeBookmark" /\ ~l.threw
  \/ l.op = "clearIndex"

\* C12: after a rebuild, addToIndex, removeFromIndex or clearIndex whose
\* writes succeed the persisted snapshot holds the entries of the index, and
\* loading it gives exactly these entries.
C12_SnapshotFollowsIndex ==
  [][(Mutated(last') /\ last'.f.save = "ok") =>
       /\ search_index' = index'
       /\ loadIndex([World EXCEPT !.search_index = search_index'], NoFault).w.index = index']_vars

\* addToIndex was saved with an entry next to the one it set
C12_Witness ==
  /\ last.op = "addBookmark"
  /\ last.stored
  /\ last.f = NoFault
  /\ Len(index) > 1
  /\ search_index = index

\* C13: the timestamp persisted with the snapshot is the time of the last
\* rebuild: when no storage call has failed and initialize loads it without
\* rebuilding, lastIndexUpdate is the time of the last rebuild, whatever
\* addToIndex, removeFromIndex and clearIndex ran since.
C13_LoadedTimestampIsLastBuild ==
  (last.op = "initialize" /\ ~last.rebuilt /\ faults = 0)
    => lastIndexUpdate = lastBuildAt

\* C14: when the snapshot is absent or its read fails (the stored value
\* cannot be parsed or is no array), initialize does not raise and no entry
\* comes from the snapshot: the index is empty, or, when the updateIndex of
\* initialize rebuilt it, holds the entries of the Record Source.
C14_UnreadableSnapshotEmptyIndex ==
  [][(last'.op = "initialize" /\ (last'.f.readIndex # "ok" \/ search_index = <<>>)) =>
       /\ ~last'.threw
       /\ ~last'.rebuilt => index' = <<>>
       /\ (last'.rebuilt /\ FetchOk(last'.f)) => EntryKeys(index') = RecordKeysOf(history', bookmarks')]_vars

\* a stored snapshot with entries could not be read and the index is empty
C14_Witness ==
  /\ last.op = "initialize"
  /\ last.f.readIndex = "fail"
  /\ ~last.rebuilt
  /\ search_index # <<>>
  /\ index = <<>>

\* C15: when a write of saveIndex fails during a rebuild, addToIndex,
\* removeFromIndex or clearIndex, the operation returns normally, the index
\* keeps what the operation did to it, and the write is not tried again:
\* what the failed write should have stored stays as it was.
C15_SaveFailureKeepsMutation ==
  [][(Mutated(last') /\ last'.f.save # "ok") =>
       /\ ~last'.threw
       /\ last'.op = "clearIndex" => index' = <<>>
       /\ last'.op \in {"addToHistory", "addBookmark"} =>
            \E j \in 1..Len(index') :
              index'[j] = createIndexItem(HandedRecord(last'.op, last'.item, now),
                                          HandedType(last'.op), now)
       /\ last'.op = "removeBookmark" => ~HasKey(index', last'.id)
       /\ last'.op \in {"updateIndex", "search", "initialize"} =>
            EntryKeys(index') = RecordKeysOf(history', bookmarks') /\ lastIndexUpdate' = now
       /\ last'.f.save = "failIndex" => UNCHANGED <<search_index, search_index_timestamp>>
       /\ last'.f.save = "failTimestamp" => UNCHANGED search_index_timestamp]_vars

\* clearIndex emptied the index while the stored snapshot kept its entries
C15_Witness ==
  /\ last.op = "clearIndex"
  /\ last.f.save = "failIndex"
  /\ ~last.threw
  /\ index = <<>>
  /\ search_index # <<>>

\* the records of one kind in the Record Source
RecordsOf(type) == IF type = "history" THEN history ELSE bookmarks

\* the entry e matches the query of the search call and its kind is included
Candidate(e, call) ==
  /\ e.type = "history" => call.options.includeHistory
  /\ e.type = "bookmark" => call.options.includeBookmarks
  /\ calculateMatch(e, normalizeQuery(call.query), call.options.fuzzyMatch).score > 0

\* C16: every result of search carries the record that the Record Source
\* holds under the id and kind of an index entry; an entry that matches but
\* has no such record gives no result and no error.
C16_ResultsCarryStoredRecords ==
  last.op = "search" =>
    /\ ~last.threw
    /\ \A k \in 1..Len(last.results) :
         /\ \E i \in 1..Len(RecordsOf(last.results[k].type)) :
              RecordsOf(last.results[k].type)[i] = last.results[k].item
         /\ \E j \in 1..Len(last.entries) :
              /\ last.entries[j].id = last.results[k].item.id
              /\ last.entries[j].type = last.results[k].type

\* a search met a matching entry without a record, with every read succeeding
C16_Witness ==
  /\ last.op = "search"
  /\ ~last.blank
  /\ last.f = NoFault
  /\ \E j \in 1..Len(last.entries) :
       /\ Candidate(last.entries[j], last.call)
       /\ FindById(RecordsOf(last.entries[j].type), last.entries[j].id) = NullItem
  /\ last.results = <<>>

\* the matching score of entry e under the search call
ScoreOf(e, call) ==
  calculateMatch(e, normalizeQuery(call.query), call.options.fuzzyMatch).score

\* C17: a search with includeBookmarks = false returns no bookmark result
\* and a search with includeHistory = false no history result.
C17_TypeFiltering ==
  last.op = "search" =>
    \A k \in 1..Len(last.results) :
      /\ last.results[k].type = "bookmark" => last.call.options.includeBookmarks
      /\ last.results[k].type = "history" => last.call.options.includeHistory

\* a search without bookmarks returned a history record and left out a
\* bookmark that matches the query and has its record
C17_Witness ==
  /\ last.op = "search"
  /\ ~last.call.options.includeBookmarks
  /\ last.results # <<>>
  /\ \E j \in 1..Len(last.entries) :
       /\ last.entries[j].type = "bookmark"
       /\ ScoreOf(last.entries[j], last.call) > 0
       /\ FindById(bookmarks, last.entries[j].id) # NullItem

\* the positions of the entries that the search that ran last had to
\* return before the limit: matching, of an included kind, with a record
Matching ==
  {j \in 1..Len(last.entries) :
     /\ Candidate(last.entries[j], last.call)
     /\ FindById(RecordsOf(last.entries[j].type), last.entries[j].id) # NullItem}

\* the entry at position j is behind the k-th result
Returned(j, k) ==
  /\ last.results[k].item.id = last.entries[j].id
  /\ last.results[k].type = last.entries[j].type

\* the search that ran last had a query with terms and read the records
Answered ==
  /\ last.op = "search"
  /\ ~last.blank
  /\ last.f.refetch = "ok"

\* C18: with sortBy = relevance, and the records read, search returns
\* min(limit, M) results for M matching entries, in non-increasing order of
\* score, and no matching entry left out scores higher than a result.
C18_LimitKeepsTopScores ==
  (Answered /\ last.call.options.sortBy = "relevance") =>
    /\ Len(last.results) = Min2(last.call.options.limit, Cardinality(Matching))
    /\ \A k \in 1..(Len(last.results) - 1) :
         last.results[k].score >= last.results[k + 1].score
    /\ \A j \in Matching :
         (\A k \in 1..Len(last.results) : ~Returned(j, k)) =>
           \A k \in 1..Len(last.results) :
             last.results[k].score >= ScoreOf(last.entries[j], last.call)

\* the limit cut off a matching entry that scores less than a result
C18_Witness ==
  /\ Answered
  /\ last.call.options.sortBy = "relevance"
  /\ Cardinality(Matching) > last.call.options.limit
  /\ Len(last.results) = last.call.options.limit
  /\ \E j \in Matching :
       /\ \A k \in 1..Len(last.results) : ~Returned(j, k)
       /\ ScoreOf(last.entries[j], last.call) < last.results[1].score

\* the frequency of a result: the visitCount of a history record, 1 for a
\* bookmark
Frequency(r) == IF r.type = "history" THEN r.item.visitCount ELSE 1

\* C19: with sortBy = frequency the results are in non-increasing order of
\* frequency, and a history result with visitCount > 1 stands before every
\* bookmark result.
C19_FrequencyOrder ==
  (last.op = "search" /\ last.call.options.sortBy = "frequency") =>
    /\ \A k \in 1..(Len(last.results) - 1) :
         Frequency(last.results[k]) >= Frequency(last.results[k + 1])
    /\ \A a \in 1..Len(last.results), b \in 1..Len(last.results) :
         (/\ last.results[a].type = "history"
          /\ last.results[a].item.visitCount > 1
          /\ last.results[b].type = "bookmark") => a < b

\* a history record visited more than once was moved in front of an entry
\* that the index holds before it, and a bookmark was returned behind it
C19_Witness ==
  /\ last.op = "search"
  /\ last.call.options.sortBy = "frequency"
  /\ Len(last.results) > 2
  /\ last.results[1].type = "history"
  /\ last.results[1].item.visitCount > 1
  /\ \E b \in 1..Len(last.results) : last.results[b].type = "bookmark"
  /\ \E j1 \in Matching, j2 \in Matching :
       j1 < j2 /\ Returned(j2, 1) /\ Returned(j1, 2)

\* a term of the query of the search call stands in the lowercased title of
\* the entry e
TitleHit(e, call) ==
  \E n \in 1..Len(normalizeQuery(call.query)) :
    \E i \in 1..Len(e.title) :
      /\ i + Len(normalizeQuery(call.query)[n]) - 1 <= Len(e.title)
      /\ \A c \in 1..Len(normalizeQuery(call.query)[n]) :
           LowerChar(e.title[i + c - 1]) = normalizeQuery(call.query)[n][c]

\* the entries of an included kind with a record whose title holds a term
TitleHits ==
  {j \in 1..Len(last.entries) :
     /\ last.entries[j].type = "history" => last.call.options.includeHistory
     /\ last.entries[j].type = "bookmark" => last.call.options.includeBookmarks
     /\ FindById(RecordsOf(last.entries[j].type), last.entries[j].id) # NullItem
     /\ TitleHit(last.entries[j], last.call)}

\* C20: with the records read, an entry of an included kind that has its
\* record and whose lowercased title holds a term of the query is returned
\* with "title" among its matchedFields, unless the limit cut it off.
C20_SubstringExactness ==
  Answered =>
    \A j \in TitleHits :
      \/ \E k \in 1..Len(last.results) :
           Returned(j, k) /\ "title" \in Range(last.results[k].matchedFields)
      \/ /\ Len(last.results) = last.call.options.limit
         /\ \A k \in 1..Len(last.results) : ~Returned(j, k)

\* "hub" was found inside the title "GitHub PRs" of a history record
C20_Witness ==
  /\ Answered
  /\ last.call.query = QueryHub
  /\ \E j \in TitleHits :
       /\ last.entries[j].title = PageGitHub.title
       /\ \E k \in 1..Len(last.results) :
            Returned(j, k) /\ "title" \in Range(last.results[k].matchedFields)

\* calculateMatch was applied to the entry of record rec with the one term
MatchedOne(rec, term) ==
  /\ last.op = "calculateMatch"
  /\ last.indexItem.id = rec.id
  /\ last.queryTerms = <<term>>

\* levenshteinSimilarity was applied to a and b, in either order
Compared(a, b) ==
  /\ last.op = "levenshteinSimilarity"
  /\ \/ last.a = a /\ last.b = b
     \/ last.a = b /\ last.b = a

\* C21 as stated: the similarity of "gihtub" and "github" exceeds 0.7, so
\* an entry with "github" among its fuzzy targets and no exact hit for
\* "gihtub" is matched with "fuzzy" in matchedFields when fuzzyMatch is true,
\* and is no match when fuzzyMatch is false.
C21_GihtubExceedsThreshold ==
  /\ Compared(QueryGihtub, toLowerCase(QueryGitHub))
       => 10 * last.similarity.num > 7 * last.similarity.den
  /\ MatchedOne(RecGitHub, QueryGihtub)
       => IF last.fuzzyMatch
            THEN "fuzzy" \in Range(last.match.matchedFields) /\ last.match.score > 0
            ELSE last.match.score = 0

\* C21, amended: "gihtub" is two edits from "github", their similarity is
\* 4/6 and does not exceed 0.7, so the entry is no match for "gihtub" with
\* fuzzyMatch true or false; "githb", one edit from "github" with the
\* similarity 5/6, has no exact hit either and is matched with exactly
\* "fuzzy" in matchedFields when fuzzyMatch is true and is no match when
\* fuzzyMatch is false.
C21_FuzzyThreshold ==
  /\ Compared(QueryGihtub, toLowerCase(QueryGitHub))
       => /\ last.distance = 2
          /\ last.similarity = [num |-> 4, den |-> 6]
          /\ ~(10 * last.similarity.num > 7 * last.similarity.den)
  /\ Compared(QueryGithb, toLowerCase(QueryGitHub))
       => /\ last.distance = 1
          /\ last.similarity = [num |-> 5, den |-> 6]
  /\ MatchedOne(RecGitHub, QueryGihtub)
       => last.match.score = 0 /\ last.match.matchedFields = <<>>
  /\ MatchedOne(RecGitHub, QueryGithb)
       => IF last.fuzzyMatch
            THEN last.match.matchedFields = <<"fuzzy">> /\ last.match.score > 0
            ELSE last.match.score = 0 /\ last.match.matchedFields = <<>>

C21_Witness ==
  /\ MatchedOne(RecGitHub, QueryGithb)
  /\ last.fuzzyMatch
  /\ "fuzzy" \in Range(last.match.matchedFields)

\* search("openai") ran without a storage failure on the index that holds
\* the entry of RecOpenAI and nothing else
ScenarioA ==
  /\ last.op = "search"
  /\ last.call.query = <<"o", "p", "e", "n", "a", "i">>
  /\ last.f = NoFault
  /\ Len(last.entries) = 1
  /\ last.entries[1].id = RecOpenAI.id
  /\ last.entries[1].type = "history"

\* the snippet begins with the title "OpenAI Blog" and so has no leading ellipsis
StartsWithTitle(snippet) ==
  /\ Len(snippet) >= Len(RecOpenAI.title)
  /\ SubSeq(snippet, 1, Len(RecOpenAI.title)) = RecOpenAI.title

\* C22 as stated: on the index that holds only the entry of "OpenAI Blog",
\* search("openai") returns one result with matchedFields exactly ["title"],
\* a score above 3.0 and a snippet that starts with the title.
C22_ScenarioATitleOnly ==
  ScenarioA
    => /\ Len(last.results) = 1
       /\ last.results[1].matchedFields = <<"title">>
       /\ last.results[1].score > 3000
       /\ StartsWithTitle(last.results[1].snippet)

\* C22, amended: the one result has matchedFields exactly ["title", "url",
\* "keywords"], since "openai" is also part of the url and of a keyword;
\* its score is above 3.0 and its snippet starts with the title, with no
\* leading ellipsis.
C22_ScenarioA ==
  ScenarioA
    => /\ Len(last.results) = 1
       /\ last.results[1].item = RecOpenAI
       /\ last.results[1].matchedFields = <<"title", "url", "keywords">>
       /\ last.results[1].score > 3000
       /\ StartsWithTitle(last.results[1].snippet)
       /\ last.results[1].snippet = RecOpenAI.title \o <<" ">> \o RecOpenAI.url

C22_Witness ==
  /\ ScenarioA
  /\ Len(last.results) = 1
  /\ last.results[1].item.visitCount = 5
  /\ last.results[1].item.timestamp = now

\* the folder and the tags of a bookmark record, lowercased
Labels(rec) ==
  {toLowerCase(rec.folder)} \cup {toLowerCase(rec.tags[i]) : i \in 1..Len(rec.tags)}

\* the bookmark records whose entries calculateMatch is applied to
MatchedBookmarks == {RecTax, RecWords(2, << <<"o", "n", "e">> >>)}

\* calculateMatch was applied to the entry of the bookmark rec and one
\* term that is part of a label of rec and of neither its title nor its url
LabelOnly(rec) ==
  /\ last.op = "calculateMatch"
  /\ last.indexItem.type = "bookmark"
  /\ last.indexItem.id = rec.id
  /\ Len(last.queryTerms) = 1
  /\ \E label \in Labels(rec) : includes(label, last.queryTerms[1])
  /\ ~includes(toLowerCase(rec.title), last.queryTerms[1])
  /\ ~includes(toLowerCase(rec.url), last.queryTerms[1])

\* C23: the lowercased folder and tags of a bookmark are keywords of its
\* entry, and a single term that is a substring of a tag or of the folder
\* but of neither the title nor the url matches the bookmark with the term
\* score 1.5 (so the score 1.5 * base score) and matchedFields exactly
\* ["keywords"].
C23_KeywordsPath ==
  /\ (last.op = "createIndexItem" /\ last.type = "bookmark")
       => Labels(last.item) \subseteq Range(last.indexItem.keywords)
  /\ \A rec \in MatchedBookmarks :
       LabelOnly(rec)
         => /\ last.match.matchedFields = <<"keywords">>
            /\ last.match.score = (1500 * last.indexItem.score) \div 1000
            /\ last.match.score > 0

\* the tag "Urgent" of RecTax is found by the query "urgent"
C23_Witness ==
  /\ LabelOnly(RecTax)
  /\ last.queryTerms = << <<"u", "r", "g", "e", "n", "t">> >>
  /\ last.match.matchedFields = <<"keywords">>

\* the entries without indexedAt: per id the kind, the keywords and the
\* searchable text
Content(entries) ==
  { [ id |-> entries[i].id, type |-> entries[i].type,
      keywords |-> entries[i].keywords, content |-> entries[i].content ] :
      i \in 1..Len(entries) }

\* C24: a forced updateIndex that directly follows a forced updateIndex,
\* both reading the records of the unchanged Record Source, leaves the
\* index with the same ids and per id the same kind, keywords and
\* searchable text as it found.
C24_RebuildIdempotent ==
  [][(last'.op = "updateIndex" /\ last'.force /\ last'.again /\ FetchOk(last'.f))
       => /\ last'.rebuilt
          /\ Content(index') = Content(index)
          /\ Len(index') = Len(index)]_vars

\* the second of two forced rebuilds over a stored history record
C24_Witness ==
  /\ last.op = "updateIndex"
  /\ last.force
  /\ last.again
  /\ FetchOk(last.f)
  /\ last.rebuilt
  /\ history # <<>>
  /\ EntryIds(index) = RecordIds
  /\ last.replaced = EntryIds(index)

\* C25: the edit distance of levenshteinSimilarity is symmetric and zero
\* on equal strings, so the similarity is symmetric and is 1 on equal
\* strings.
C25_EditDistanceSymmetric ==
  last.op = "levenshteinSimilarity"
    => /\ last.distance = last.distanceBack
       /\ last.similarity.num * last.similarityBack.den
            = last.similarityBack.num * last.similarity.den
       /\ last.a = last.b
            => /\ last.distance = 0
               /\ last.similarity.num = last.similarity.den

\* two different strings of different lengths, two edits apart
C25_Witness ==
  /\ last.op = "levenshteinSimilarity"
  /\ Len(last.a) = 3
  /\ Len(last.b) = 2
  /\ last.distance = 2
  /\ last.distanceBack = 2

\* C26: an entry made by createIndexItem, which updateIndex and addToIndex
\* both call, has at most 21 keywords, also for a bookmark record with a
\* folder and several tags.
C26_AtMost21Keywords ==
  last.op = "createIndexItem" => Len(last.indexItem.keywords) <= 21

\* C27: the fuzzy fallback is tried for a term only when the term has no
\* title, url or keyword hit and fuzzyMatch is on: for a single-term query
\* "fuzzy" is in matchedFields only when it is the only field, and with
\* fuzzyMatch off "fuzzy" is in no matchedFields.
C27_FuzzyOnlyAsFallback ==
  last.op = "calculateMatch"
    => /\ ~last.fuzzyMatch => "fuzzy" \notin Range(last.match.matchedFields)
       /\ (Len(last.queryTerms) = 1 /\ "fuzzy" \in Range(last.match.matchedFields))
            => last.match.matchedFields = <<"fuzzy">>

\* a term with exact hits whose similarity to a fuzzy target exceeds 0.7
\* is scored without the fuzzy fallback although fuzzyMatch is on
C27_Witness ==
  /\ last.op = "calculateMatch"
  /\ last.fuzzyMatch
  /\ last.queryTerms = <<toLowerCase(QueryGitHub)>>
  /\ last.indexItem.id = RecGitHub.id
  /\ 10 * calculateFuzzyMatch(last.queryTerms[1], last.indexItem).num
       > 7 * calculateFuzzyMatch(last.queryTerms[1], last.indexItem).den
  /\ last.match.matchedFields = <<"title", "url", "keywords">>

\* the score of one term from its title, url and keyword hits, in thousandths
ExactScore(e, term) ==
  (IF includes(toLowerCase(e.title), term) THEN 3000 ELSE 0)
    + (IF includes(toLowerCase(e.url), term) THEN 2000 ELSE 0)
    + (IF \E k \in 1..Len(e.keywords) : includes(e.keywords[k], term) THEN 1500 ELSE 0)

\* the term has no exact hit and its best similarity exceeds 0.7
FellBack(e, term) ==
  /\ ExactScore(e, term) = 0
  /\ 10 * calculateFuzzyMatch(term, e).num > 7 * calculateFuzzyMatch(term, e).den

\* the sum of the per-term scores of the terms from the k-th on
RECURSIVE SumOfTerms(_, _, _, _)
SumOfTerms(e, terms, fuzzyMatch, k) ==
  IF k > Len(terms) THEN 0
  ELSE (IF fuzzyMatch /\ FellBack(e, terms[k])
          THEN (500 * calculateFuzzyMatch(terms[k], e).num) \div calculateFuzzyMatch(terms[k], e).den
          ELSE ExactScore(e, terms[k]))
         + SumOfTerms(e, terms, fuzzyMatch, k + 1)

\* the field categories matched by some term of the query
Categories(e, terms, fuzzyMatch) ==
  {c \in {"title", "url", "keywords", "fuzzy"} :
     \E k \in 1..Len(terms) :
       CASE c = "title" -> includes(toLowerCase(e.title), terms[k])
         [] c = "url" -> includes(toLowerCase(e.url), terms[k])
         [] c = "keywords" -> \E j \in 1..Len(e.keywords) : includes(e.keywords[j], terms[k])
         [] OTHER -> fuzzyMatch /\ FellBack(e, terms[k])}

\* C28: matchedFields holds each field category matched by some term
\* once; with n > 1 terms the score is (sum of the per-term scores) * base
\* score * (1 + (d / n) * 0.5) for d the number of these categories, and
\* with one term it is the term's score * base score.
C28_CoverageBonus ==
  last.op = "calculateMatch"
    => LET n == Len(last.queryTerms)
           d == Cardinality(Categories(last.indexItem, last.queryTerms, last.fuzzyMatch))
           weighted == (SumOfTerms(last.indexItem, last.queryTerms, last.fuzzyMatch, 1)
                          * last.indexItem.score) \div 1000
       IN /\ Range(last.match.matchedFields)
               = Categories(last.indexItem, last.queryTerms, last.fuzzyMatch)
          /\ Len(last.match.matchedFields) = d
          /\ last.match.score = IF n > 1 THEN (weighted * (2 * n + d)) \div (2 * n)
                                ELSE weighted

\* two terms that together match three field categories: d / n exceeds 1
C28_Witness ==
  /\ last.op = "calculateMatch"
  /\ Len(last.queryTerms) = 2
  /\ Len(last.match.matchedFields) = 3
  /\ last.match.score
       = (((SumOfTerms(last.indexItem, last.queryTerms, last.fuzzyMatch, 1)
              * last.indexItem.score) \div 1000) * 7) \div 4
  /\ last.match.score > 0

\* the 0-based positions at which term occurs in text
Occurrences(text, term) ==
  {p \in 0..(Len(text) - Len(term)) : SubSeq(text, p + 1, p + Len(term)) = term}

\* the start of the window: 50 characters ahead of the first occurrence of
\* the earliest term of the query that occurs in the lowercased text, not
\* below 0; 0 when no term occurs
WindowStart(text, terms) ==
  LET occurring == {k \in 1..Len(terms) : Occurrences(toLowerCase(text), terms[k]) # {}}
      earliest == CHOOSE k \in occurring : \A j \in occurring : k <= j
      positions == Occurrences(toLowerCase(text), terms[earliest])
      position == CHOOSE p \in positions : \A q \in positions : p <= q
  IN IF occurring = {} THEN 0 ELSE Max2(0, position - 50)

\* the field of the snippet of the last generateSnippet
SnippetField == last.indexItem.title \o <<" ">> \o last.indexItem.url

\* C29: the snippet is the window of at most 150 characters of title + " "
\* + url that starts at WindowStart, with "..." in front exactly when the
\* start is above 0 and "..." behind exactly when start + 150 is before the
\* end of the field.
C29_SnippetWindow ==
  last.op = "generateSnippet"
    => LET start == WindowStart(SnippetField, last.queryTerms)
           window == SubSeq(SnippetField, start + 1, Min2(Len(SnippetField), start + 150))
       IN last.snippet
            = (IF start > 0 THEN <<".", ".", ".">> ELSE <<>>)
                \o window
                \o (IF start + 150 < Len(SnippetField) THEN <<".", ".", ".">> ELSE <<>>)

\* a window inside the field: an ellipsis on either side of 150 characters,
\* anchored at the second term because the first does not occur
C29_Witness ==
  /\ last.op = "generateSnippet"
  /\ Len(last.queryTerms) = 2
  /\ Occurrences(toLowerCase(SnippetField), last.queryTerms[1]) = {}
  /\ WindowStart(SnippetField, last.queryTerms) > 0
  /\ WindowStart(SnippetField, last.queryTerms) + 150 < Len(SnippetField)
  /\ Len(last.snippet) = 156

\* C30: addToIndex, removeFromIndex and clearIndex, as browserStore and
\* the manager run them, leave lastIndexUpdate as it is; a search of a
\* non-blank query rebuilds exactly when the interval has elapsed since
\* lastIndexUpdate, so directly after clearIndex and within the interval
\* it runs on the emptied index and returns no result.
C30_MutationsKeepLastBuildAt ==
  [][/\ last'.op \in {"addToHistory", "addBookmark", "removeBookmark", "clearIndex"}
        => lastIndexUpdate' = lastIndexUpdate
     /\ (last'.op = "search" /\ ~last'.blank)
        => last'.rebuilt = ~(now - lastIndexUpdate < INDEX_UPDATE_INTERVAL)
     /\ (/\ last.op = "clearIndex"
         /\ last'.op = "search"
         /\ now - lastIndexUpdate < INDEX_UPDATE_INTERVAL)
        => /\ ~last'.rebuilt
           /\ index' = <<>>
           /\ last'.results = <<>>]_vars

\* a search for "openai" right after clearIndex returns nothing although
\* the history holds the record "OpenAI Blog", indexed at the last rebuild
C30_Witness ==
  /\ last.op = "search"
  /\ last.call.query = <<"o", "p", "e", "n", "a", "i">>
  /\ faults = 0
  /\ steps = 2
  /\ \E i \in 1..Len(history) : history[i] = RecOpenAI
  /\ lastIndexUpdate = StartNow
  /\ now = StartNow
  /\ index = <<>>
  /\ last.results = <<>>
  /\ ~last.rebuilt

====
